---- MODULE Spec2Model ----
(***************************************************************************)
(* A model of the AirPods battery scanner.                                 *)
(*                                                                         *)
(*   - AppleContinuityParser (Source/protocol/AppleContinuityParser.cpp):  *)
(*     the pure decoder of the proximity-pairing payload.                  *)
(*   - WinRtBleScanner (Source/ble/WinRtBleScanner.cpp): the watcher       *)
(*     lifecycle (Start, Stop, the stopped handler with its restart loop,  *)
(*     the destructor) and the device registry (AddDevice, GetDevices,     *)
(*     GetDeviceCount, ClearDevices, RegisterCallback), thread by thread   *)
(*     and one shared access per step.                                     *)
(*                                                                         *)
(* C++ vectors are 0-indexed and TLA+ sequences 1-indexed: At(d, i) is the *)
(* code's d[i].                                                            *)
(***************************************************************************)
EXTENDS Integers, Sequences, FiniteSets, TLC

(***************************************************************************)
(* Bounds of the model.                                                    *)
(***************************************************************************)
\* longest payload handed to the parser
MaxLen == 9
\* calls the application makes on the scanner
MaxCalls == 2
\* unsolicited stoppages of the advertisement source
MaxFaults == 1
\* advertisements the source delivers
MaxAdverts == 2
\* manufacturer-data sections in one advertisement
MaxSections == 1
MaxCompares == 3
\* The sections of one advertisement when company identifiers may repeat.
MaxRepeats == 2

(***************************************************************************)
(* Program constants.                                                      *)
(***************************************************************************)
PROXIMITY_PAIRING_TYPE == 7
MIN_DATA_LENGTH == 8

\* RETRY_INTERVAL, in time units (seconds)
RETRY_INTERVAL == 3
\* the destructor's wait_for, in time units (seconds)
DESTROY_TIMEOUT == 1
APPLE_COMPANY_ID == 76

VARIABLES
    \* ---- the parser under test
    parserData,     \* the byte vector the parser is called with
    parserOp,       \* the parser call made on parserData: "none", "CanParse", "Parse"
    parserRet,      \* what that call returned
    parserReads,    \* the 0-based indices of parserData that call read
    \* ---- the advertisement source (bleWatcher_)
    watcherStatus,  \* bleWatcher_.Status()
    pendingStopped, \* Stopped notifications raised and not yet delivered
    faults,         \* unsolicited stoppages so far
    \* ---- WinRtBleScanner's members
    devicesMutex,   \* devicesMutex_: the thread holding it, or NoThread
    conditionMutex, \* conditionMutex_: the thread holding it, or NoThread
    stopRequested,  \* stopRequested_
    destroyRequested, \* destroyRequested_
    sinceLastStart, \* now - lastStartTime_, saturating at RETRY_INTERVAL
    devices,        \* devices_
    v5Devices,      \* _devices of the v5 AdvertisementWatcher
    deviceCallback, \* deviceCallback_: the callback held, or NoCallback
    \* ---- threads
    advert,         \* the advertisement a thread of the source is delivering:
                    \* its address and the company ids of the sections left
    device,         \* the device of the AddDevice call a thread executes
    callback,       \* the callback of the RegisterCallback call a thread executes
    size,           \* the size a thread read from devices_
    snapshot,       \* the vector a thread's GetDevices() builds and returns
    count,          \* what a thread's GetDeviceCount() returned
    pc,             \* where each thread is in the code
    frame,          \* what the Start() or Stop() a thread executes returns into
    outcome,        \* how the source ended the call a thread made on it
    ret,            \* what each thread's call returns: "true", "false", or "fault"
                    \* when a fault of the source leaves the call uncaught
    waitLeft,       \* time left before a waiting thread's wait times out
    calls,          \* calls made by the application so far
    \* ---- history
    explicitStopDone, \* an application Stop() returned, no application Start() since
    stopEverRequested, \* some Stop() or the destructor has begun
    exitReason,     \* how each handler's last restart loop ended
    sinceLastSuccess, \* now - lastStartTime_ as the last Start() that succeeded left
                    \* it, saturating at RETRY_INTERVAL
    adverts,        \* advertisements delivered so far
    addCalls,       \* AddDevice calls begun so far
    eventsFrom,     \* per address, the Apple sections received so far
    appends,        \* push_back calls completed so far
    clears,         \* ClearDevices calls that have emptied devices_ so far
    appendsAtClear, \* appends, as it was when devices_ was last emptied
    registered,     \* the callbacks whose registration has completed, in order
    registeredAtCall, \* registered, as it was when a thread's AddDevice began
    invoked,        \* the callbacks a thread's AddDevice has invoked, in order
    contents,       \* the values devices_ has had during a thread's GetDevices()
    \* ---- comparisons
    operands,       \* the BleDevice values the application compares
    compared        \* the comparisons made so far, each with what it returned

parserVars == <<parserData, parserOp, parserRet, parserReads>>

compareVars == <<operands, compared>>

sourceVars == <<watcherStatus, pendingStopped, faults>>

lifecycleVars == <<devicesMutex, conditionMutex, stopRequested, destroyRequested,
                   sinceLastStart>>

registryVars == <<devices, v5Devices, deviceCallback, advert, device, callback, size, snapshot,
                  count, adverts, addCalls, eventsFrom, appends, clears, appendsAtClear,
                  registered, registeredAtCall, invoked, contents>>

threadVars == <<pc, frame, outcome, ret, waitLeft, calls>>

historyVars == <<explicitStopDone, stopEverRequested, exitReason, sinceLastSuccess>>

vars == <<parserVars, compareVars, sourceVars, lifecycleVars, registryVars, threadVars, historyVars>>

(***************************************************************************)
(* AppleContinuityParser                                                   *)
(***************************************************************************)
NoResult == [has_value |-> FALSE]

At(d, i) == d[i + 1]

HexDigits == <<"0", "1", "2", "3", "4", "5", "6", "7",
               "8", "9", "A", "B", "C", "D", "E", "F">>

HexDigit(n) == HexDigits[n + 1]

ParseModelName(modelId) ==
    CASE modelId = 8212 -> "AirPods Pro 2"      \* 0x2014
      [] modelId = 8206 -> "AirPods Pro"        \* 0x200E
      [] modelId = 8211 -> "AirPods 3"          \* 0x2013
      [] modelId = 8207 -> "AirPods 2"          \* 0x200F
      [] OTHER -> "Unknown AirPods"

\* The digits of n in base 16, without leading zeros.
HexOf(n) ==
    IF n < 16 THEN <<HexDigit(n)>>
    ELSE IF n < 256 THEN <<HexDigit(n \div 16), HexDigit(n % 16)>>
    ELSE IF n < 4096
    THEN <<HexDigit(n \div 256), HexDigit((n \div 16) % 16), HexDigit(n % 16)>>
    ELSE <<HexDigit(n \div 4096), HexDigit((n \div 256) % 16),
           HexDigit((n \div 16) % 16), HexDigit(n % 16)>>

\* The identifier formatted without setfill('0') << setw(4).
FormatModelIdUnpadded(modelId) == <<"0", "x">> \o HexOf(modelId)

\* "0x" << hex << uppercase << setfill('0') << setw(4) << modelId
FormatModelId(modelId) ==
    <<"0", "x",
      HexDigit((modelId \div 4096) % 16),
      HexDigit((modelId \div 256) % 16),
      HexDigit((modelId \div 16) % 16),
      HexDigit(modelId % 16)>>

\* (b & 0xF0) >> 4 and b & 0x0F
HighNibble(b) == (b \div 16) % 16
LowNibble(b) == b % 16
\* (b & (1 << k)) != 0
BitSet(b, k) == (b \div (2 ^ k)) % 2 = 1

\* An extraction that takes the left level from the low nibble and the right
\* one from the high nibble.
ExtractBatteryLevelsSwapped(batteryData, statusByte) ==
    [left |-> LowNibble(batteryData) * 10,
     right |-> HighNibble(batteryData) * 10,
     case_ |-> HighNibble(statusByte) * 10]

\* The nibble times 10, with no test of the nibble's range.
ExtractBatteryLevels(batteryData, statusByte) ==
    [left |-> HighNibble(batteryData) * 10,
     right |-> LowNibble(batteryData) * 10,
     case_ |-> HighNibble(statusByte) * 10]

\* Charging flags read one bit higher: bit 3 for the case, bit 2 for the
\* left and bit 1 for the right earbud.
ExtractChargingStateShifted(statusByte) ==
    [leftCharging |-> BitSet(statusByte, 2),
     rightCharging |-> BitSet(statusByte, 1),
     caseCharging |-> BitSet(statusByte, 3)]

ExtractChargingState(statusByte) ==
    [leftCharging |-> BitSet(statusByte, 1),
     rightCharging |-> BitSet(statusByte, 0),
     caseCharging |-> BitSet(statusByte, 2)]

\* A device state whose bothInCase is set as soon as one earbud is out of
\* the ear.
ExtractDeviceStateEitherInCase(lidData) ==
    [leftInEar |-> BitSet(lidData, 1),
     rightInEar |-> BitSet(lidData, 0),
     bothInCase |-> (~BitSet(lidData, 1)) \/ (~BitSet(lidData, 0)),
     lidOpen |-> BitSet(lidData, 2)]

ExtractDeviceState(lidData) ==
    LET lidOpen == BitSet(lidData, 2)
        leftInEar == BitSet(lidData, 1)
        rightInEar == BitSet(lidData, 0)
    IN  [leftInEar |-> leftInEar,
         rightInEar |-> rightInEar,
         bothInCase |-> (~leftInEar) /\ (~rightInEar),
         lidOpen |-> lidOpen]

\* A broadcasting side taken to be the left one.
DetermineBroadcastingEarLeft == "left"

\* return "right"; whatever the payload.
DetermineBroadcastingEar == "right"

\* The length test of CanParse and Parse.
LongEnough(d) == Len(d) >= MIN_DATA_LENGTH

\* A CanParse that tests the length alone.
CanParseEvalLengthOnly(d) == [ret |-> LongEnough(d), reads |-> {}]

\* CanParse: size() >= MIN_DATA_LENGTH && data[0] == PROXIMITY_PAIRING_TYPE.
\* && does not evaluate data[0] when the length test fails.
CanParseEval(d) ==
    IF ~LongEnough(d)
    THEN [ret |-> FALSE, reads |-> {}]
    ELSE [ret |-> At(d, 0) = PROXIMITY_PAIRING_TYPE, reads |-> {0}]

CanParse(d) == CanParseEval(d).ret

\* Fields whose model identifier takes data[3] as its high byte.
ParseFieldsHighByteFirst(d) ==
    LET modelId == (At(d, 3) * 256 + At(d, 4)) % 65536
    IN  [has_value |-> TRUE,
         model |-> ParseModelName(modelId),
         modelId |-> FormatModelId(modelId),
         batteryLevels |-> ExtractBatteryLevels(At(d, 6), At(d, 5)),
         chargingState |-> ExtractChargingState(At(d, 5)),
         deviceState |-> ExtractDeviceState(At(d, 7)),
         broadcastingEar |-> DetermineBroadcastingEar]

\* Fields whose lid byte is taken at data[2].
ParseFieldsLidAtTwo(d) ==
    LET modelId == (At(d, 4) * 256 + At(d, 3)) % 65536
    IN  [has_value |-> TRUE,
         model |-> ParseModelName(modelId),
         modelId |-> FormatModelId(modelId),
         batteryLevels |-> ExtractBatteryLevels(At(d, 6), At(d, 5)),
         chargingState |-> ExtractChargingState(At(d, 5)),
         deviceState |-> ExtractDeviceState(At(d, 2)),
         broadcastingEar |-> DetermineBroadcastingEar]

\* The fields Parse builds once both of its tests have passed.
ParseFields(d) ==
    LET modelId == (At(d, 4) * 256 + At(d, 3)) % 65536
        statusByte == At(d, 5)
        batteryData == At(d, 6)
        lidData == At(d, 7)
    IN  [has_value |-> TRUE,
         model |-> ParseModelName(modelId),
         modelId |-> FormatModelId(modelId),
         batteryLevels |-> ExtractBatteryLevels(batteryData, statusByte),
         chargingState |-> ExtractChargingState(statusByte),
         deviceState |-> ExtractDeviceState(lidData),
         broadcastingEar |-> DetermineBroadcastingEar]

\* A Parse that leaves the protocol type to CanParse.
ParseEvalNoTypeCheck(d) ==
    IF ~LongEnough(d)
    THEN [ret |-> NoResult, reads |-> {}]
    ELSE [ret |-> ParseFields(d), reads |-> {3, 4, 5, 6, 7}]

\* Parse: the length test, then the protocol type, then the fields.
ParseEval(d) ==
    IF ~LongEnough(d)
    THEN [ret |-> NoResult, reads |-> {}]
    ELSE IF At(d, 0) # PROXIMITY_PAIRING_TYPE
    THEN [ret |-> NoResult, reads |-> {0}]
    ELSE [ret |-> ParseFields(d), reads |-> {0, 3, 4, 5, 6, 7}]

Parse(d) == ParseEval(d).ret

\* parser.CanParse(data)
CallCanParse ==
    /\ parserOp' = "CanParse"
    /\ parserRet' = CanParseEval(parserData).ret
    /\ parserReads' = CanParseEval(parserData).reads
    /\ UNCHANGED <<parserData, compareVars, registryVars, sourceVars, lifecycleVars,
                   threadVars, historyVars>>

\* parser.Parse(data)
CallParse ==
    /\ parserOp' = "Parse"
    /\ parserRet' = ParseEval(parserData).ret
    /\ parserReads' = ParseEval(parserData).reads
    /\ UNCHANGED <<parserData, compareVars, registryVars, sourceVars, lifecycleVars,
                   threadVars, historyVars>>

\* sprintf_s(model_hex, "0x%04x", model_id): the digits in lower case.
parse_airpods_data_lowercase(d) ==
    IF Len(d) < 8 \/ At(d, 0) # 7
    THEN NoResult
    ELSE [ParseFields(d) EXCEPT
             !.modelId = [i \in 1..6 |->
                             CASE @[i] = "A" -> "a" [] @[i] = "B" -> "b"
                               [] @[i] = "C" -> "c" [] @[i] = "D" -> "d"
                               [] @[i] = "E" -> "e" [] @[i] = "F" -> "f"
                               [] OTHER -> @[i]]]

\* The v5 scanner's parse_airpods_data, its flat AirPodsData laid out in the
\* fields of the modular one.
parse_airpods_data(d) ==
    IF Len(d) < 8 THEN NoResult
    ELSE IF At(d, 0) # 7 THEN NoResult
    ELSE
        LET model_id == (At(d, 4) * 256 + At(d, 3)) % 65536
            status == At(d, 5)
            battery_data == At(d, 6)
            lid_data == At(d, 7)
            left_in_ear == (lid_data \div 2) % 2 # 0
            right_in_ear == lid_data % 2 # 0
        IN  [has_value |-> TRUE,
             model |-> CASE model_id = 8212 -> "AirPods Pro 2"
                         [] model_id = 8206 -> "AirPods Pro"
                         [] model_id = 8211 -> "AirPods 3"
                         [] model_id = 8207 -> "AirPods 2"
                         [] OTHER -> "Unknown AirPods",
             \* sprintf_s(model_hex, "0x%04X", model_id)
             modelId |-> <<"0", "x">> \o
                         [i \in 1..4 |-> HexDigits[((model_id \div (16 ^ (4 - i))) % 16) + 1]],
             batteryLevels |-> [left |-> ((battery_data \div 16) % 16) * 10,
                                right |-> (battery_data % 16) * 10,
                                case_ |-> ((status \div 16) % 16) * 10],
             chargingState |-> [leftCharging |-> (status \div 2) % 2 # 0,
                                rightCharging |-> status % 2 # 0,
                                caseCharging |-> (status \div 4) % 2 # 0],
             deviceState |-> [leftInEar |-> left_in_ear,
                              rightInEar |-> right_in_ear,
                              bothInCase |-> (~left_in_ear) /\ (~right_in_ear),
                              lidOpen |-> (lid_data \div 4) % 2 # 0],
             broadcastingEar |-> "right"]

\* parse_airpods_data(data)
CallParseAirpodsData ==
    /\ parserOp' = "parse_airpods_data"
    /\ parserRet' = parse_airpods_data(parserData)
    /\ parserReads' = IF Len(parserData) < 8 THEN {}
                      ELSE IF At(parserData, 0) # 7 THEN {0}
                      ELSE {0, 3, 4, 5, 6, 7}
    /\ UNCHANGED <<parserData, compareVars, registryVars, sourceVars, lifecycleVars,
                   threadVars, historyVars>>

\* Payloads of every length up to MaxLen over the accepted and a rejected
\* protocol type.
TypeBytes == {7, 8}
ShortInputs == UNION {[1..n -> TypeBytes] : n \in 0..MaxLen}

\* Eight-byte payloads with sampled model, status, battery and lid bytes;
\* 07 19 01 14 20 0b 88 8f and 07 19 01 14 20 0b 77 8f are among them.
ModelLowBytes == {20, 14, 10}
ModelHighBytes == {32, 0}
StatusBytes == {11, 244}
BatteryBytes == {136, 119, 175}
LidBytes == {143, 0, 2}
FieldInputs ==
    {<<d0, 25, 1, lo, hi, st, bat, lid>> :
        d0 \in TypeBytes, lo \in ModelLowBytes, hi \in ModelHighBytes,
        st \in StatusBytes, bat \in BatteryBytes, lid \in LidBytes}

\* Every value of a uint8_t.
ByteValues == 0..255

\* The payload of the parser tests with every value of its status byte, of
\* its battery byte and of its lid byte in turn.
ByteSweepInputs ==
    {<<7, 25, 1, 20, 32, st, 136, 143>> : st \in ByteValues}
    \cup {<<7, 25, 1, 20, 32, 11, bat, 143>> : bat \in ByteValues}
    \cup {<<7, 25, 1, 20, 32, 11, 136, lid>> : lid \in ByteValues}

\* The same payload with every value of the two model bytes.
ModelIdInputs ==
    {<<7, 25, 1, lo, hi, 11, 136, 143>> : lo \in ByteValues, hi \in ByteValues}

\* The payloads of the parser tests in the contribution guide: one with the
\* company identifier 4C 00 in front, one of another manufacturer.
PrefixedInput == <<76, 0, 7, 25, 1, 20, 32, 11>>
ForeignInput == <<255, 255, 0, 0>>

ParserInputs ==
    ShortInputs \cup FieldInputs \cup ByteSweepInputs \cup {PrefixedInput, ForeignInput}

(***************************************************************************)
(* Threads.  The application calls the public methods from its own threads *)
(* (Owner is the one that destroys the scanner); the advertisement source  *)
(* delivers Stopped notifications on Handlers and advertisements on        *)
(* Adders.                                                                 *)
(***************************************************************************)
Owner == "main"
Callers == {"main", "user"}
Handlers == {"h1", "h2"}
Adders == {"a1", "a2"}
Threads == Callers \cup Handlers \cup Adders
NoThread == "none"

\* The scanner object lives until its destructor has run; std::terminate ends
\* the process.
Alive == pc[Owner] \notin {"destroyed", "terminated"}
InDestructor == frame[Owner] = "dtor"

Goto(t, label) == pc' = [pc EXCEPT ![t] = label]

Min(a, b) == IF a < b THEN a ELSE b
Max(a, b) == IF a > b THEN a ELSE b

(***************************************************************************)
(* The advertisement source.  A call of bleWatcher_.Start() or             *)
(* bleWatcher_.Stop() ends normally or raises a fault: one derived from    *)
(* std::exception, or one that is not (C++/WinRT raises                    *)
(* winrt::hresult_error, which has no std::exception base).                *)
(***************************************************************************)
Outcomes == {"ok", "std_exception", "hresult_error"}

\* Status after bleWatcher_.Start(): scanning on success, not scanning on failure.
WatcherAfterStart(status, o) ==
    IF o = "ok" THEN "Started" ELSE "Aborted"

\* Status after bleWatcher_.Stop(): a failed unsubscribe changes nothing.
WatcherAfterStop(status, o) ==
    IF o = "ok" /\ status = "Started" THEN "Stopped" ELSE status

\* The Stopped notification fires whenever scanning halts.
StoppedRaised(status, o) ==
    IF o = "ok" /\ status = "Started" THEN 1 ELSE 0

\* catch (const std::exception& ex)
Caught(o) == o = "std_exception"

\* What Start() and Stop() hand to their caller for an outcome of the source:
\* true, false from the catch block, or the fault itself when no catch matches.
CallResult(o) ==
    IF o = "ok" THEN "true"
    ELSE IF Caught(o) THEN "false"
    ELSE "fault"

\* The source stops scanning on its own (radio switched off, adapter fault).
SourceAbort ==
    /\ Alive
    /\ watcherStatus = "Started"
    /\ faults < MaxFaults
    /\ watcherStatus' = "Aborted"
    /\ pendingStopped' = pendingStopped + 1
    /\ faults' = faults + 1
    /\ UNCHANGED <<parserVars, compareVars, registryVars, lifecycleVars, threadVars, historyVars>>

\* Time passes: lastStartTime_ ages and the timed waits run down.
Tick ==
    /\ Alive
    /\ sinceLastStart' = Min(sinceLastStart + 1, RETRY_INTERVAL)
    /\ waitLeft' = [t \in Threads |-> Max(waitLeft[t] - 1, 0)]
    /\ sinceLastSuccess' = Min(sinceLastSuccess + 1, RETRY_INTERVAL)
    /\ UNCHANGED <<parserVars, compareVars, registryVars, sourceVars, devicesMutex, conditionMutex,
                   stopRequested, destroyRequested, pc, frame, outcome, ret, calls,
                   explicitStopDone, stopEverRequested, exitReason>>

(***************************************************************************)
(* WinRtBleScanner::Start                                                  *)
(***************************************************************************)
CallStart(t) ==
    /\ Alive /\ ~InDestructor
    /\ pc[t] = "idle"
    /\ calls < MaxCalls
    /\ calls' = calls + 1
    /\ Goto(t, "start_flag")
    /\ ret' = [ret EXCEPT ![t] = "none"]
    /\ explicitStopDone' = FALSE
    /\ outcome' = [outcome EXCEPT ![t] = "none"]
    /\ UNCHANGED <<parserVars, compareVars, registryVars, sourceVars, lifecycleVars, frame, waitLeft,
                   stopEverRequested, exitReason, sinceLastSuccess>>

\* stopRequested_ = false;
StartFlag(t) ==
    /\ Alive
    /\ pc[t] = "start_flag"
    /\ stopRequested' = FALSE
    /\ Goto(t, "start_time")
    /\ UNCHANGED <<parserVars, compareVars, registryVars, sourceVars, devicesMutex, conditionMutex,
                   destroyRequested, sinceLastStart, frame, outcome, ret, waitLeft, calls,
                   historyVars>>

\* lastStartTime_ = std::chrono::steady_clock::now();
StartTime(t) ==
    /\ Alive
    /\ pc[t] = "start_time"
    /\ sinceLastStart' = 0
    /\ Goto(t, "start_lock")
    /\ UNCHANGED <<parserVars, compareVars, registryVars, sourceVars, devicesMutex, conditionMutex,
                   stopRequested, destroyRequested, frame, outcome, ret, waitLeft, calls,
                   historyVars>>

\* std::lock_guard<std::mutex> lock{devicesMutex_};
StartLock(t) ==
    /\ Alive
    /\ pc[t] = "start_lock"
    /\ devicesMutex = NoThread
    /\ devicesMutex' = t
    /\ Goto(t, "start_call")
    /\ UNCHANGED <<parserVars, compareVars, registryVars, sourceVars, conditionMutex, stopRequested,
                   destroyRequested, sinceLastStart, frame, outcome, ret, waitLeft, calls,
                   historyVars>>

\* bleWatcher_.Start(); and the return or the catch block it leads to.
StartCall(t) ==
    /\ Alive
    /\ pc[t] = "start_call"
    /\ \E o \in Outcomes :
          /\ watcherStatus' = WatcherAfterStart(watcherStatus, o)
          /\ outcome' = [outcome EXCEPT ![t] = o]
          /\ ret' = [ret EXCEPT ![t] = CallResult(o)]
          /\ sinceLastSuccess' = IF o = "ok" THEN sinceLastStart ELSE sinceLastSuccess
    /\ Goto(t, "start_unlock")
    /\ UNCHANGED <<parserVars, compareVars, registryVars, pendingStopped, faults, lifecycleVars, frame,
                   waitLeft, calls, explicitStopDone, stopEverRequested, exitReason>>

\* Where a Start() that returned `result` into the restart loop leads:
\* while (!stopRequested_ && !Start()) leaves the loop on true and repeats on
\* false; a fault leaves OnScannerStopped altogether.
LoopAfterStart(result) ==
    IF result = "false" THEN "h_cond_lock" ELSE "idle"

LoopExitReason(result) ==
    CASE result = "true" -> "started"
      [] result = "false" -> "none"
      [] OTHER -> "fault"

\* The lock_guard is released and Start() returns, to the application or into
\* the restart loop.
StartReturn(t) ==
    /\ Alive
    /\ pc[t] = "start_unlock"
    /\ devicesMutex' = NoThread
    /\ IF frame[t] = "loop"
       THEN /\ Goto(t, LoopAfterStart(ret[t]))
            /\ exitReason' = [exitReason EXCEPT ![t] = LoopExitReason(ret[t])]
            /\ outcome' = [outcome EXCEPT ![t] = "none"]
            /\ ret' = [ret EXCEPT ![t] = "none"]
       ELSE /\ Goto(t, "idle")
            /\ UNCHANGED <<exitReason, outcome, ret, sinceLastSuccess>>
    /\ frame' = [frame EXCEPT ![t] = "api"]
    /\ UNCHANGED <<parserVars, compareVars, registryVars, sourceVars, conditionMutex, stopRequested,
                   destroyRequested, sinceLastStart, waitLeft, calls,
                   explicitStopDone, stopEverRequested, sinceLastSuccess>>

(***************************************************************************)
(* WinRtBleScanner::Stop                                                   *)
(***************************************************************************)
CallStop(t) ==
    /\ Alive /\ ~InDestructor
    /\ pc[t] = "idle"
    /\ calls < MaxCalls
    /\ calls' = calls + 1
    /\ Goto(t, "stop_flag")
    /\ outcome' = [outcome EXCEPT ![t] = "none"]
    /\ ret' = [ret EXCEPT ![t] = "none"]
    /\ UNCHANGED <<parserVars, compareVars, registryVars, sourceVars, lifecycleVars, frame, waitLeft,
                   historyVars>>

\* stopRequested_ = true;
StopFlag(t) ==
    /\ Alive
    /\ pc[t] = "stop_flag"
    /\ stopRequested' = TRUE
    /\ stopEverRequested' = TRUE
    /\ Goto(t, "stop_notify")
    /\ UNCHANGED <<parserVars, compareVars, registryVars, sourceVars, devicesMutex, conditionMutex,
                   destroyRequested, sinceLastStart, frame, outcome, ret, waitLeft, calls,
                   explicitStopDone, exitReason, sinceLastSuccess>>

\* A notify_all on a condition variable ends the wait of every thread blocked
\* in it; each still has to take conditionMutex_ again.
Woken(label) ==
    [t \in Threads |-> IF pc[t] = label THEN "reacquire" ELSE "same"]

\* stopCondition_.notify_all();
StopNotify(t) ==
    /\ Alive
    /\ pc[t] = "stop_notify"
    /\ pc' = [u \in Threads |->
                IF u = t THEN "stop_lock"
                ELSE IF Woken("h_wait")[u] = "reacquire" THEN "h_reacquire"
                ELSE pc[u]]
    /\ waitLeft' = [u \in Threads |->
                      IF Woken("h_wait")[u] = "reacquire" THEN 0 ELSE waitLeft[u]]
    /\ UNCHANGED <<parserVars, compareVars, registryVars, sourceVars, lifecycleVars, frame, outcome, ret, calls,
                   historyVars>>

\* std::lock_guard<std::mutex> lock{devicesMutex_};
StopLock(t) ==
    /\ Alive
    /\ pc[t] = "stop_lock"
    /\ devicesMutex = NoThread
    /\ devicesMutex' = t
    /\ Goto(t, "stop_call")
    /\ UNCHANGED <<parserVars, compareVars, registryVars, sourceVars, conditionMutex, stopRequested,
                   destroyRequested, sinceLastStart, frame, outcome, ret, waitLeft, calls,
                   historyVars>>

\* A Stop() that also empties devices_.
StopCallClearing(t) ==
    /\ Alive
    /\ pc[t] = "stop_call"
    /\ \E o \in Outcomes :
          /\ watcherStatus' = WatcherAfterStop(watcherStatus, o)
          /\ pendingStopped' = pendingStopped + StoppedRaised(watcherStatus, o)
          /\ outcome' = [outcome EXCEPT ![t] = o]
          /\ ret' = [ret EXCEPT ![t] = CallResult(o)]
    /\ devices' = <<>>
    /\ Goto(t, "stop_unlock")
    /\ UNCHANGED <<parserVars, compareVars, v5Devices, deviceCallback, advert, device, callback,
                   size, snapshot, count, adverts, addCalls, eventsFrom, appends, clears,
                   appendsAtClear, registered, registeredAtCall, invoked, contents, faults,
                   lifecycleVars, frame, waitLeft, calls, historyVars>>

\* bleWatcher_.Stop(); and the return or the catch block it leads to.
StopCall(t) ==
    /\ Alive
    /\ pc[t] = "stop_call"
    /\ \E o \in Outcomes :
          /\ watcherStatus' = WatcherAfterStop(watcherStatus, o)
          /\ pendingStopped' = pendingStopped + StoppedRaised(watcherStatus, o)
          /\ outcome' = [outcome EXCEPT ![t] = o]
          /\ ret' = [ret EXCEPT ![t] = CallResult(o)]
    /\ Goto(t, "stop_unlock")
    /\ UNCHANGED <<parserVars, compareVars, registryVars, faults, lifecycleVars, frame, waitLeft, calls,
                   historyVars>>

\* Where the destructor goes on after its Stop(): a fault that leaves a
\* destructor ends the process (std::terminate).
DtorAfterStop(result) ==
    IF result = "fault" THEN "terminated" ELSE "dtor_cond_lock"

\* The lock_guard is released and Stop() returns, to the application or into
\* the destructor.
StopReturn(t) ==
    /\ Alive
    /\ pc[t] = "stop_unlock"
    /\ devicesMutex' = NoThread
    /\ IF frame[t] = "dtor"
       THEN /\ Goto(t, DtorAfterStop(ret[t]))
            /\ UNCHANGED explicitStopDone
       ELSE /\ Goto(t, "idle")
            /\ explicitStopDone' = TRUE
    /\ UNCHANGED <<parserVars, compareVars, registryVars, sourceVars, conditionMutex, stopRequested,
                   destroyRequested, sinceLastStart, frame, outcome, ret, waitLeft, calls,
                   stopEverRequested, exitReason, sinceLastSuccess>>

(***************************************************************************)
(* WinRtBleScanner::IsScanning                                             *)
(***************************************************************************)
CallIsScanning(t) ==
    /\ Alive /\ ~InDestructor
    /\ pc[t] = "idle"
    /\ calls < MaxCalls
    /\ calls' = calls + 1
    /\ Goto(t, "scanning_lock")
    /\ outcome' = [outcome EXCEPT ![t] = "none"]
    /\ ret' = [ret EXCEPT ![t] = "none"]
    /\ UNCHANGED <<parserVars, compareVars, registryVars, sourceVars, lifecycleVars, frame, waitLeft,
                   historyVars>>

IsScanningLock(t) ==
    /\ Alive
    /\ pc[t] = "scanning_lock"
    /\ devicesMutex = NoThread
    /\ devicesMutex' = t
    /\ Goto(t, "scanning_read")
    /\ UNCHANGED <<parserVars, compareVars, registryVars, sourceVars, conditionMutex, stopRequested,
                   destroyRequested, sinceLastStart, frame, outcome, ret, waitLeft, calls,
                   historyVars>>

\* bleWatcher_.Status() == Started
Scanning == watcherStatus = "Started"

IsScanningReturn(t) ==
    /\ Alive
    /\ pc[t] = "scanning_read"
    /\ ret' = [ret EXCEPT ![t] = IF Scanning THEN "true" ELSE "false"]
    /\ devicesMutex' = NoThread
    /\ Goto(t, "idle")
    /\ UNCHANGED outcome
    /\ UNCHANGED <<parserVars, compareVars, registryVars, sourceVars, conditionMutex, stopRequested,
                   destroyRequested, sinceLastStart, frame, waitLeft, calls,
                   historyVars>>

(***************************************************************************)
(* WinRtBleScanner::OnScannerStopped                                       *)
(***************************************************************************)
\* The source delivers a Stopped notification on one of its threads.
DeliverStopped(h) ==
    /\ Alive
    /\ pc[h] = "idle"
    /\ pendingStopped > 0
    /\ pendingStopped' = pendingStopped - 1
    /\ Goto(h, "h_lock")
    /\ exitReason' = [exitReason EXCEPT ![h] = "none"]
    /\ UNCHANGED <<parserVars, compareVars, registryVars, watcherStatus, faults, lifecycleVars, frame, outcome, ret,
                   waitLeft, calls, explicitStopDone, stopEverRequested, sinceLastSuccess>>

\* std::unique_lock<std::mutex> lock{devicesMutex_};
HandlerLock(h) ==
    /\ Alive
    /\ pc[h] = "h_lock"
    /\ devicesMutex = NoThread
    /\ devicesMutex' = h
    /\ Goto(h, "h_status")
    /\ UNCHANGED <<parserVars, compareVars, registryVars, sourceVars, conditionMutex, stopRequested,
                   destroyRequested, sinceLastStart, frame, outcome, ret, waitLeft, calls,
                   historyVars>>

\* The status read with the unique_lock kept until the handler returns.
HandlerStatusKeepsLock(h) ==
    /\ Alive
    /\ pc[h] = "h_status"
    /\ Goto(h, "h_destroy_check")
    /\ UNCHANGED <<parserVars, compareVars, registryVars, sourceVars, lifecycleVars, frame, outcome, ret,
                   waitLeft, calls, historyVars>>

\* auto status = bleWatcher_.Status(); lock.unlock();
HandlerStatus(h) ==
    /\ Alive
    /\ pc[h] = "h_status"
    /\ devicesMutex' = NoThread
    /\ Goto(h, "h_destroy_check")
    /\ UNCHANGED <<parserVars, compareVars, registryVars, sourceVars, conditionMutex, stopRequested,
                   destroyRequested, sinceLastStart, frame, outcome, ret, waitLeft, calls,
                   historyVars>>

\* if (!destroyRequested_) { do ... } else { destroyCondition_.notify_all(); }
HandlerBranch(destroy) ==
    IF destroy THEN "h_notify" ELSE "h_cond_lock"

HandlerDestroyCheck(h) ==
    /\ Alive
    /\ pc[h] = "h_destroy_check"
    /\ Goto(h, HandlerBranch(destroyRequested))
    /\ UNCHANGED <<parserVars, compareVars, registryVars, sourceVars, lifecycleVars, frame, outcome, ret,
                   waitLeft, calls, historyVars>>

\* destroyCondition_.notify_all();
HandlerNotify(h) ==
    /\ Alive
    /\ pc[h] = "h_notify"
    /\ pc' = [u \in Threads |->
                IF u = h THEN "idle"
                ELSE IF Woken("dtor_wait")[u] = "reacquire" THEN "dtor_reacquire"
                ELSE pc[u]]
    /\ waitLeft' = [u \in Threads |->
                      IF Woken("dtor_wait")[u] = "reacquire" THEN 0 ELSE waitLeft[u]]
    /\ exitReason' = [exitReason EXCEPT ![h] = "teardown"]
    /\ UNCHANGED <<parserVars, compareVars, registryVars, sourceVars, lifecycleVars, frame, outcome, ret, calls,
                   explicitStopDone, stopEverRequested, sinceLastSuccess>>

\* do { std::unique_lock<std::mutex> lock{conditionMutex_};
HandlerCondLock(h) ==
    /\ Alive
    /\ pc[h] = "h_cond_lock"
    /\ conditionMutex = NoThread
    /\ conditionMutex' = h
    /\ Goto(h, "h_wait_begin")
    /\ UNCHANGED <<parserVars, compareVars, registryVars, sourceVars, devicesMutex, stopRequested,
                   destroyRequested, sinceLastStart, frame, outcome, ret, waitLeft, calls,
                   historyVars>>

\* A wait of the whole interval, whenever the last Start() was: wait_for.
RetryDeadlineWholeInterval == RETRY_INTERVAL

\* The time from now to lastStartTime_.load() + RETRY_INTERVAL.
RetryDeadline == RETRY_INTERVAL - sinceLastStart

\* stopCondition_.wait_until(lock, lastStartTime_.load() + RETRY_INTERVAL):
\* the deadline is computed, conditionMutex_ released and the thread blocked.
HandlerWaitBegin(h) ==
    /\ Alive
    /\ pc[h] = "h_wait_begin"
    /\ waitLeft' = [waitLeft EXCEPT ![h] = RetryDeadline]
    /\ conditionMutex' = NoThread
    /\ Goto(h, "h_wait")
    /\ UNCHANGED <<parserVars, compareVars, registryVars, sourceVars, devicesMutex, stopRequested,
                   destroyRequested, sinceLastStart, frame, outcome, ret, calls,
                   historyVars>>

\* A wait ends to take conditionMutex_ again.
AfterWait(label) ==
    IF label = "h_wait" THEN "h_reacquire" ELSE "dtor_reacquire"

Waiting(t) == pc[t] \in {"h_wait", "dtor_wait"}

\* A destructor that waits with destroyCondition_.wait(lock): only the
\* handler's wait has a deadline.
TimeoutWakeHandlerOnly(t) ==
    /\ Alive
    /\ pc[t] = "h_wait"
    /\ waitLeft[t] = 0
    /\ Goto(t, AfterWait(pc[t]))
    /\ UNCHANGED <<parserVars, compareVars, registryVars, sourceVars, lifecycleVars, frame, outcome, ret,
                   waitLeft, calls, historyVars>>

\* A timed wait ends at its deadline.
TimeoutWake(t) ==
    /\ Alive
    /\ Waiting(t)
    /\ waitLeft[t] = 0
    /\ Goto(t, AfterWait(pc[t]))
    /\ UNCHANGED <<parserVars, compareVars, registryVars, sourceVars, lifecycleVars, frame, outcome, ret,
                   waitLeft, calls, historyVars>>

\* A wait without a predicate may end with no notification and before its
\* deadline (a spurious wakeup).
SpuriousWake(t) ==
    /\ Alive
    /\ Waiting(t)
    /\ waitLeft[t] > 0
    /\ waitLeft' = [waitLeft EXCEPT ![t] = 0]
    /\ Goto(t, AfterWait(pc[t]))
    /\ UNCHANGED <<parserVars, compareVars, registryVars, sourceVars, lifecycleVars, frame, outcome, ret, calls,
                   historyVars>>

\* wait_until returns with conditionMutex_ held again.
HandlerReacquire(h) ==
    /\ Alive
    /\ pc[h] = "h_reacquire"
    /\ conditionMutex = NoThread
    /\ conditionMutex' = h
    /\ Goto(h, "h_cond_unlock")
    /\ UNCHANGED <<parserVars, compareVars, registryVars, sourceVars, devicesMutex, stopRequested,
                   destroyRequested, sinceLastStart, frame, outcome, ret, waitLeft, calls,
                   historyVars>>

\* A unique_lock declared before the loop: it is still held when the loop's
\* condition calls Start().
HandlerCondUnlockAfterLoop(h) ==
    /\ Alive
    /\ pc[h] = "h_cond_unlock"
    /\ Goto(h, "h_stop_check")
    /\ UNCHANGED <<parserVars, compareVars, registryVars, sourceVars, devicesMutex, stopRequested,
                   destroyRequested, sinceLastStart, frame, outcome, ret, waitLeft, calls,
                   historyVars, conditionMutex>>

\* } the unique_lock of the loop body is released
HandlerCondUnlock(h) ==
    /\ Alive
    /\ pc[h] = "h_cond_unlock"
    /\ conditionMutex' = NoThread
    /\ Goto(h, "h_stop_check")
    /\ UNCHANGED <<parserVars, compareVars, registryVars, sourceVars, devicesMutex, stopRequested,
                   destroyRequested, sinceLastStart, frame, outcome, ret, waitLeft, calls,
                   historyVars>>

\* while (!stopRequested_ && ...: the loop ends when a stop is requested,
\* and Start() is called otherwise.
LoopAfterCheck(stop) ==
    IF stop THEN "idle" ELSE "start_flag"

HandlerStopCheck(h) ==
    /\ Alive
    /\ pc[h] = "h_stop_check"
    /\ Goto(h, LoopAfterCheck(stopRequested))
    /\ frame' = [frame EXCEPT ![h] = "loop"]
    /\ exitReason' = [exitReason EXCEPT ![h] =
                         IF stopRequested THEN "stopped" ELSE "none"]
    /\ UNCHANGED <<parserVars, compareVars, registryVars, sourceVars, lifecycleVars, outcome, ret, waitLeft, calls,
                   explicitStopDone, stopEverRequested, sinceLastSuccess>>

(***************************************************************************)
(* WinRtBleScanner::~WinRtBleScanner                                       *)
(***************************************************************************)
CallDestroy(t) ==
    /\ Alive /\ ~InDestructor
    /\ t = Owner
    /\ \A u \in Callers : pc[u] = "idle"
    /\ Goto(t, "dtor_check")
    /\ frame' = [frame EXCEPT ![t] = "dtor"]
    /\ outcome' = [outcome EXCEPT ![t] = "none"]
    /\ ret' = [ret EXCEPT ![t] = "none"]
    /\ UNCHANGED <<parserVars, compareVars, registryVars, sourceVars, lifecycleVars, waitLeft, calls,
                   historyVars>>

\* if (!destroyRequested_) {
DtorBranch(destroy) ==
    IF destroy THEN "destroyed" ELSE "dtor_set"

DtorCheck(t) ==
    /\ Alive
    /\ pc[t] = "dtor_check"
    /\ Goto(t, DtorBranch(destroyRequested))
    /\ UNCHANGED <<parserVars, compareVars, registryVars, sourceVars, lifecycleVars, frame, outcome, ret,
                   waitLeft, calls, historyVars>>

\* destroyRequested_ = true; Stop();
DtorSet(t) ==
    /\ Alive
    /\ pc[t] = "dtor_set"
    /\ destroyRequested' = TRUE
    /\ stopEverRequested' = TRUE
    /\ Goto(t, "stop_flag")
    /\ UNCHANGED <<parserVars, compareVars, registryVars, sourceVars, devicesMutex, conditionMutex,
                   stopRequested, sinceLastStart, frame, outcome, ret, waitLeft, calls,
                   explicitStopDone, exitReason, sinceLastSuccess>>

\* std::unique_lock<std::mutex> lock{conditionMutex_};
DtorCondLock(t) ==
    /\ Alive
    /\ pc[t] = "dtor_cond_lock"
    /\ conditionMutex = NoThread
    /\ conditionMutex' = t
    /\ Goto(t, "dtor_wait_begin")
    /\ UNCHANGED <<parserVars, compareVars, registryVars, sourceVars, devicesMutex, stopRequested,
                   destroyRequested, sinceLastStart, frame, outcome, ret, waitLeft, calls,
                   historyVars>>

\* destroyCondition_.wait_for(lock, std::chrono::seconds(1));
DtorWaitBegin(t) ==
    /\ Alive
    /\ pc[t] = "dtor_wait_begin"
    /\ waitLeft' = [waitLeft EXCEPT ![t] = DESTROY_TIMEOUT]
    /\ conditionMutex' = NoThread
    /\ Goto(t, "dtor_wait")
    /\ UNCHANGED <<parserVars, compareVars, registryVars, sourceVars, devicesMutex, stopRequested,
                   destroyRequested, sinceLastStart, frame, outcome, ret, calls,
                   historyVars>>

\* wait_for returns with conditionMutex_ held again.
DtorReacquire(t) ==
    /\ Alive
    /\ pc[t] = "dtor_reacquire"
    /\ conditionMutex = NoThread
    /\ conditionMutex' = t
    /\ Goto(t, "dtor_cond_unlock")
    /\ UNCHANGED <<parserVars, compareVars, registryVars, sourceVars, devicesMutex, stopRequested,
                   destroyRequested, sinceLastStart, frame, outcome, ret, waitLeft, calls,
                   historyVars>>

\* } the unique_lock is released and the destructor returns
DtorReturn(t) ==
    /\ Alive
    /\ pc[t] = "dtor_cond_unlock"
    /\ conditionMutex' = NoThread
    /\ Goto(t, "destroyed")
    /\ UNCHANGED <<parserVars, compareVars, registryVars, sourceVars, devicesMutex, stopRequested,
                   destroyRequested, sinceLastStart, frame, outcome, ret, waitLeft, calls,
                   historyVars>>

(***************************************************************************)
(* The device registry.                                                    *)
(***************************************************************************)
\* What the registry operations leave alone.
lifecycleOnlyVars == <<parserVars, compareVars, sourceVars, conditionMutex, stopRequested,
                       destroyRequested, sinceLastStart, frame, outcome, ret,
                       waitLeft, historyVars>>

\* A BleDevice as its constructor leaves it: no telemetry.
BleDeviceAsConstructed(address, rssi, manufacturerData, timestamp) ==
    [address |-> address,
     rssi |-> rssi,
     manufacturerData |-> manufacturerData,
     timestamp |-> timestamp,
     airpodsData |-> [has_value |-> FALSE]]

\* A BleDevice: the address of the advertisement, the section's payload and
\* what the parser made of it.
BleDevice(address, rssi, manufacturerData, timestamp) ==
    [address |-> address,
     rssi |-> rssi,
     manufacturerData |-> manufacturerData,
     timestamp |-> timestamp,
     airpodsData |-> Parse(manufacturerData)]

NoDevice == BleDevice("none", 0, <<>>, 0)
NoCallback == "none"
NoAdvert == [address |-> "none", rssi |-> 0, timestamp |-> 0, sections |-> <<>>]
\* What a read of memory that holds no valid object yields.
Garbage == "garbage"

\* The callbacks the application registers, one after the other.
Callbacks == <<"f1", "f2", "f3", "f4">>

\* The Bluetooth addresses of the devices that advertise, the company
\* identifiers (Apple and Microsoft) on the air, and the payloads: the one of
\* the parser tests and a Nearby Info message (type 0x10) of another Apple
\* device.
Addresses == {"a1b2", "c3d4"}
\* Each advertiser is heard at its own signal strength.
RssiOf == [a \in Addresses |-> IF a = "a1b2" THEN -60 ELSE -45]
CompanyIds == {APPLE_COMPANY_ID, 6}
Payloads == {<<7, 25, 1, 20, 32, 11, 136, 143>>, <<16, 5, 25, 28, 203, 17, 4, 1>>}
SectionLists ==
    UNION {[1..n -> [companyId : CompanyIds, data : Payloads]] : n \in 1..MaxSections}

\* The threads inside GetDevices() see every value devices_ takes.
InGetDevices(t) == pc[t] \in {"get_lock", "get_size", "get_copy"}

Observed(next) ==
    [t \in Threads |-> IF InGetDevices(t) THEN contents[t] \cup {next}
                       ELSE contents[t]]

\* v[i] of a std::vector: past the end it is whatever the memory holds.
ElementAt(v, i) == IF i <= Len(v) THEN v[i] ELSE BleDevice(Garbage, 0, <<>>, 0)

\* push_back with room to spare: the element is stored at the end read
\* before, and the end moves one past it.
StoreAt(v, n, d) ==
    [i \in 1..(n + 1) |-> IF i = n + 1 THEN d ELSE ElementAt(v, i)]

\* The source delivers an advertisement on one of its threads; the events of
\* a scan fall within one tick of the clock that stamps them.
Received(t, lists) ==
    /\ Alive
    /\ pc[t] = "idle"
    /\ Scanning
    /\ adverts < MaxAdverts
    /\ adverts' = adverts + 1
    /\ \E address \in Addresses, sections \in lists :
          advert' = [advert EXCEPT ![t] =
                        [address |-> address, rssi |-> RssiOf[address],
                         timestamp |-> 1, sections |-> sections]]
    /\ Goto(t, "adv_loop")
    /\ UNCHANGED <<lifecycleOnlyVars, devicesMutex, calls, devices, deviceCallback,
                   device, callback, size, snapshot, count, addCalls, eventsFrom, appends,
                   appendsAtClear, clears, registered, registeredAtCall, invoked, contents>>

\* WinRtBleScanner::OnAdvertisementReceived: address, signal strength and
\* timestamp are read, then the sections are handled one by one.
OnAdvertisementReceived(t) ==
    /\ Received(t, SectionLists)
    /\ UNCHANGED v5Devices

\* A test that every company passes.
IsAnyCompany(companyId) == companyId \in CompanyIds

\* if (companyId == APPLE_COMPANY_ID)
IsApple(companyId) == companyId = APPLE_COMPANY_ID

\* for (i = 0; i < manufacturerDataArray.Size(); ++i) ProcessManufacturerData(...):
\* a section of Apple's becomes a device handed to AddDevice, any other is
\* passed over.
ProcessManufacturerData(t) ==
    /\ Alive
    /\ pc[t] = "adv_loop"
    /\ invoked' = [invoked EXCEPT ![t] = <<>>]
    /\ IF advert[t].sections = <<>>
       THEN /\ advert' = [advert EXCEPT ![t] = NoAdvert]
            /\ registeredAtCall' = [registeredAtCall EXCEPT ![t] = <<>>]
            /\ Goto(t, "idle")
            /\ UNCHANGED <<device, addCalls, eventsFrom>>
       ELSE /\ advert' = [advert EXCEPT ![t].sections = Tail(@)]
            /\ IF IsApple(Head(advert[t].sections).companyId)
               THEN /\ device' = [device EXCEPT ![t] =
                                     BleDevice(advert[t].address, advert[t].rssi,
                                               Head(advert[t].sections).data,
                                               advert[t].timestamp)]
                    /\ addCalls' = addCalls + 1
                    /\ eventsFrom' = [eventsFrom EXCEPT ![advert[t].address] = @ + 1]
                    /\ registeredAtCall' = [registeredAtCall EXCEPT ![t] = registered]
                    /\ Goto(t, "add_lock")
               ELSE /\ registeredAtCall' = [registeredAtCall EXCEPT ![t] = <<>>]
                    /\ UNCHANGED <<pc, device, addCalls, eventsFrom>>
    /\ UNCHANGED <<lifecycleOnlyVars, devicesMutex, calls, v5Devices, devices, deviceCallback,
                   callback, size, snapshot, count, adverts, appends, appendsAtClear, clears,
                   registered, contents>>

\* An AddDevice that goes on without waiting for devicesMutex_.
AddDeviceNoLock(t) ==
    /\ Alive
    /\ pc[t] = "add_lock"
    /\ Goto(t, "add_size")
    /\ UNCHANGED <<lifecycleOnlyVars, devicesMutex, calls, registryVars>>

\* AddDevice: std::lock_guard<std::mutex> lock{devicesMutex_};
AddDeviceLock(t) ==
    /\ Alive
    /\ pc[t] = "add_lock"
    /\ devicesMutex = NoThread
    /\ devicesMutex' = t
    /\ Goto(t, "add_size")
    /\ UNCHANGED <<lifecycleOnlyVars, calls, registryVars>>

\* devices_.push_back(device): the end of the vector is read,
AddDeviceSize(t) ==
    /\ Alive
    /\ pc[t] = "add_size"
    /\ size' = [size EXCEPT ![t] = Len(devices)]
    /\ Goto(t, "add_store")
    /\ UNCHANGED <<lifecycleOnlyVars, devicesMutex, calls, v5Devices, devices, deviceCallback,
                   advert, device, callback, snapshot, count, adverts, addCalls, eventsFrom,
                   appends, appendsAtClear, clears, registered, registeredAtCall, invoked,
                   contents>>

\* A store that overwrites the entry of the same address when there is one.
AddDeviceStoreMerging(t) ==
    /\ Alive
    /\ pc[t] = "add_store"
    /\ devices' =
          IF \E i \in 1..Len(devices) : devices[i].address = device[t].address
          THEN [i \in 1..Len(devices) |->
                   IF devices[i].address = device[t].address THEN device[t]
                   ELSE devices[i]]
          ELSE StoreAt(devices, size[t], device[t])
    /\ contents' = Observed(devices')
    /\ appends' = appends + 1
    /\ size' = [size EXCEPT ![t] = 0]
    /\ Goto(t, "add_unlock")
    /\ UNCHANGED <<lifecycleOnlyVars, devicesMutex, calls, v5Devices, deviceCallback, advert,
                   device, callback, snapshot, count, adverts, addCalls, eventsFrom, appendsAtClear, clears,
                   registered, registeredAtCall, invoked>>

\* A store at the front: devices_.insert(devices_.begin(), device).
AddDeviceStoreFront(t) ==
    /\ Alive
    /\ pc[t] = "add_store"
    /\ devices' = <<device[t]>> \o devices
    /\ contents' = Observed(devices')
    /\ appends' = appends + 1
    /\ size' = [size EXCEPT ![t] = 0]
    /\ Goto(t, "add_unlock")
    /\ UNCHANGED <<lifecycleOnlyVars, devicesMutex, calls, v5Devices, deviceCallback, advert,
                   device, callback, snapshot, count, adverts, addCalls, eventsFrom, appendsAtClear, clears,
                   registered, registeredAtCall, invoked>>

\* and the device stored there.
AddDeviceStore(t) ==
    /\ Alive
    /\ pc[t] = "add_store"
    /\ devices' = StoreAt(devices, size[t], device[t])
    /\ contents' = Observed(devices')
    /\ appends' = appends + 1
    /\ size' = [size EXCEPT ![t] = 0]
    /\ Goto(t, "add_unlock")
    /\ UNCHANGED <<lifecycleOnlyVars, devicesMutex, calls, v5Devices, deviceCallback, advert,
                   device, callback, snapshot, count, adverts, addCalls, eventsFrom, appendsAtClear, clears,
                   registered, registeredAtCall, invoked>>

\* A lock_guard that lives to the end of AddDevice: the callback runs under
\* devicesMutex_.
AddDeviceUnlockAtReturn(t) ==
    /\ Alive
    /\ pc[t] = "add_unlock"
    /\ Goto(t, "add_check")
    /\ UNCHANGED <<lifecycleOnlyVars, devicesMutex, calls, registryVars>>

\* } the lock_guard's block ends
AddDeviceUnlock(t) ==
    /\ Alive
    /\ pc[t] = "add_unlock"
    /\ devicesMutex' = NoThread
    /\ Goto(t, "add_check")
    /\ UNCHANGED <<lifecycleOnlyVars, calls, registryVars>>

\* The threads in the middle of deviceCallback_ = std::move(callback).
Assigning == {w \in Threads : pc[w] = "reg_assigning"}

\* A read of deviceCallback_, which no lock guards: while an assignment to it
\* is under way the read is a data race and yields the old callback, the new
\* one, or neither.
ReadCallback ==
    IF Assigning = {} THEN {deviceCallback}
    ELSE {deviceCallback, Garbage} \cup {callback[w] : w \in Assigning}

\* if (deviceCallback_) {
AfterCheck(read) == IF read = NoCallback THEN "adv_loop" ELSE "add_invoke"

AddDeviceCheck(t) ==
    /\ Alive
    /\ pc[t] = "add_check"
    /\ \E read \in ReadCallback :
          /\ Goto(t, AfterCheck(read))
          /\ device' = [device EXCEPT ![t] =
                           IF read = NoCallback THEN NoDevice ELSE @]
    /\ UNCHANGED <<lifecycleOnlyVars, devicesMutex, calls, v5Devices, devices, deviceCallback,
                   advert, callback, size, snapshot, count, adverts, addCalls, eventsFrom,
                   appends, appendsAtClear, clears, registered, registeredAtCall, invoked,
                   contents>>

\* deviceCallback_(device); }
AddDeviceInvoke(t) ==
    /\ Alive
    /\ pc[t] = "add_invoke"
    /\ \E read \in ReadCallback :
          invoked' = [invoked EXCEPT ![t] = Append(@, read)]
    /\ device' = [device EXCEPT ![t] = NoDevice]
    /\ Goto(t, "adv_loop")
    /\ UNCHANGED <<lifecycleOnlyVars, devicesMutex, calls, v5Devices, devices, deviceCallback,
                   advert, callback, size, snapshot, count, adverts, addCalls, eventsFrom,
                   appends, appendsAtClear, clears, registered, registeredAtCall, contents>>

(***************************************************************************)
(* WinRtBleScanner::GetDevices                                             *)
(***************************************************************************)
CallGetDevices(t) ==
    /\ Alive /\ ~InDestructor
    /\ pc[t] = "idle"
    /\ calls < MaxCalls
    /\ calls' = calls + 1
    /\ snapshot' = [snapshot EXCEPT ![t] = <<>>]
    /\ contents' = [contents EXCEPT ![t] = {devices}]
    /\ Goto(t, "get_lock")
    /\ UNCHANGED <<lifecycleOnlyVars, devicesMutex, v5Devices, devices, deviceCallback, advert,
                   device, callback, size, count, adverts, addCalls, eventsFrom, appends,
                   appendsAtClear, clears, registered, registeredAtCall, invoked>>

\* A GetDevices that goes on without waiting for devicesMutex_.
GetDevicesNoLock(t) ==
    /\ Alive
    /\ pc[t] = "get_lock"
    /\ Goto(t, "get_size")
    /\ UNCHANGED <<lifecycleOnlyVars, devicesMutex, calls, registryVars>>

\* std::lock_guard<std::mutex> lock{devicesMutex_};
GetDevicesLock(t) ==
    /\ Alive
    /\ pc[t] = "get_lock"
    /\ devicesMutex = NoThread
    /\ devicesMutex' = t
    /\ Goto(t, "get_size")
    /\ UNCHANGED <<lifecycleOnlyVars, calls, registryVars>>

\* return devices_; the copy is made of as many elements as devices_ holds,
GetDevicesSize(t) ==
    /\ Alive
    /\ pc[t] = "get_size"
    /\ size' = [size EXCEPT ![t] = Len(devices)]
    /\ Goto(t, "get_copy")
    /\ UNCHANGED <<lifecycleOnlyVars, devicesMutex, calls, v5Devices, devices, deviceCallback,
                   advert, device, callback, snapshot, count, adverts, addCalls, eventsFrom,
                   appends, appendsAtClear, clears, registered, registeredAtCall, invoked,
                   contents>>

\* one element after the other,
GetDevicesCopy(t) ==
    /\ Alive
    /\ pc[t] = "get_copy"
    /\ Len(snapshot[t]) < size[t]
    /\ snapshot' = [snapshot EXCEPT ![t] =
                       Append(@, ElementAt(devices, Len(@) + 1))]
    /\ UNCHANGED <<lifecycleOnlyVars, devicesMutex, calls, v5Devices, devices, deviceCallback,
                   advert, device, callback, size, count, adverts, addCalls, eventsFrom,
                   appends, appendsAtClear, clears, registered, registeredAtCall, invoked,
                   contents, pc>>

\* and the lock_guard released once the copy is complete.
GetDevicesReturn(t) ==
    /\ Alive
    /\ pc[t] = "get_copy"
    /\ Len(snapshot[t]) = size[t]
    /\ devicesMutex' = NoThread
    /\ size' = [size EXCEPT ![t] = 0]
    /\ contents' = [contents EXCEPT ![t] = {}]
    /\ Goto(t, "idle")
    /\ UNCHANGED <<lifecycleOnlyVars, calls, v5Devices, devices, deviceCallback, advert, device,
                   callback, snapshot, count, adverts, addCalls, eventsFrom, appends, appendsAtClear, clears,
                   registered, registeredAtCall, invoked>>

(***************************************************************************)
(* WinRtBleScanner::GetDeviceCount                                         *)
(***************************************************************************)
CallGetDeviceCount(t) ==
    /\ Alive /\ ~InDestructor
    /\ pc[t] = "idle"
    /\ calls < MaxCalls
    /\ calls' = calls + 1
    /\ Goto(t, "count_lock")
    /\ UNCHANGED <<lifecycleOnlyVars, devicesMutex, registryVars>>

\* std::lock_guard<std::mutex> lock{devicesMutex_};
GetDeviceCountLock(t) ==
    /\ Alive
    /\ pc[t] = "count_lock"
    /\ devicesMutex = NoThread
    /\ devicesMutex' = t
    /\ Goto(t, "count_size")
    /\ UNCHANGED <<lifecycleOnlyVars, calls, registryVars>>

\* return devices_.size();
GetDeviceCountSize(t) ==
    /\ Alive
    /\ pc[t] = "count_size"
    /\ count' = [count EXCEPT ![t] = Len(devices)]
    /\ Goto(t, "count_unlock")
    /\ UNCHANGED <<lifecycleOnlyVars, devicesMutex, calls, v5Devices, devices, deviceCallback,
                   advert, device, callback, size, snapshot, adverts, addCalls, eventsFrom,
                   appends, appendsAtClear, clears, registered, registeredAtCall, invoked,
                   contents>>

GetDeviceCountReturn(t) ==
    /\ Alive
    /\ pc[t] = "count_unlock"
    /\ devicesMutex' = NoThread
    /\ Goto(t, "idle")
    /\ UNCHANGED <<lifecycleOnlyVars, calls, registryVars>>

(***************************************************************************)
(* WinRtBleScanner::ClearDevices                                           *)
(***************************************************************************)
CallClearDevices(t) ==
    /\ Alive /\ ~InDestructor
    /\ pc[t] = "idle"
    /\ calls < MaxCalls
    /\ calls' = calls + 1
    /\ Goto(t, "clear_lock")
    /\ UNCHANGED <<lifecycleOnlyVars, devicesMutex, registryVars>>

\* std::lock_guard<std::mutex> lock{devicesMutex_};
ClearDevicesLock(t) ==
    /\ Alive
    /\ pc[t] = "clear_lock"
    /\ devicesMutex = NoThread
    /\ devicesMutex' = t
    /\ Goto(t, "clear_clear")
    /\ UNCHANGED <<lifecycleOnlyVars, calls, registryVars>>

\* The last device removed only: devices_.pop_back().
ClearDevicesClearLast(t) ==
    /\ Alive
    /\ pc[t] = "clear_clear"
    /\ devices' = SubSeq(devices, 1, Len(devices) - 1)
    /\ contents' = Observed(devices')
    /\ clears' = clears + 1
    /\ appendsAtClear' = appends
    /\ Goto(t, "clear_unlock")
    /\ UNCHANGED <<lifecycleOnlyVars, devicesMutex, calls, v5Devices, deviceCallback, advert,
                   device, callback, size, snapshot, count, adverts, addCalls, eventsFrom,
                   appends, registered, registeredAtCall, invoked>>

\* devices_.clear();
ClearDevicesClear(t) ==
    /\ Alive
    /\ pc[t] = "clear_clear"
    /\ devices' = <<>>
    /\ contents' = Observed(devices')
    /\ clears' = clears + 1
    /\ appendsAtClear' = appends
    /\ Goto(t, "clear_unlock")
    /\ UNCHANGED <<lifecycleOnlyVars, devicesMutex, calls, v5Devices, deviceCallback, advert,
                   device, callback, size, snapshot, count, adverts, addCalls, eventsFrom,
                   appends, registered, registeredAtCall, invoked>>

ClearDevicesReturn(t) ==
    /\ Alive
    /\ pc[t] = "clear_unlock"
    /\ devicesMutex' = NoThread
    /\ Goto(t, "idle")
    /\ UNCHANGED <<lifecycleOnlyVars, calls, registryVars>>

(***************************************************************************)
(* WinRtBleScanner::RegisterCallback                                       *)
(***************************************************************************)
\* The callbacks handed to RegisterCallback so far.
Registering == {callback[w] : w \in Threads} \ {NoCallback}
NextCallback == Callbacks[Len(registered) + Cardinality(Registering) + 1]

\* The application registers a callback it has not registered before.
CallRegisterCallback(t) ==
    /\ Alive /\ ~InDestructor
    /\ pc[t] = "idle"
    /\ calls < MaxCalls
    /\ calls' = calls + 1
    /\ callback' = [callback EXCEPT ![t] = NextCallback]
    /\ Goto(t, "reg_assign")
    /\ UNCHANGED <<lifecycleOnlyVars, devicesMutex, v5Devices, devices, deviceCallback, advert,
                   device, size, snapshot, count, adverts, addCalls, eventsFrom, appends,
                   appendsAtClear, clears, registered, registeredAtCall, invoked, contents>>

\* deviceCallback_ = std::move(callback); the assignment begins,
RegisterCallbackAssign(t) ==
    /\ Alive
    /\ pc[t] = "reg_assign"
    /\ Goto(t, "reg_assigning")
    /\ UNCHANGED <<lifecycleOnlyVars, devicesMutex, calls, registryVars>>

\* What deviceCallback_ holds after an assignment: the callback assigned, or
\* neither callback when another thread's assignment ran at the same time.
Assigned(t) ==
    IF Assigning = {t} THEN {callback[t]} ELSE {callback[t], Garbage}

\* and completes.
RegisterCallbackAssigned(t) ==
    /\ Alive
    /\ pc[t] = "reg_assigning"
    /\ deviceCallback' \in Assigned(t)
    /\ registered' = Append(registered, callback[t])
    /\ callback' = [callback EXCEPT ![t] = NoCallback]
    /\ Goto(t, "idle")
    /\ UNCHANGED <<lifecycleOnlyVars, devicesMutex, calls, v5Devices, devices, advert, device,
                   size, snapshot, count, adverts, addCalls, eventsFrom, appends, appendsAtClear, clears,
                   registeredAtCall, invoked, contents>>

(***************************************************************************)
(* The v5 scanner: AdvertisementWatcher::OnReceived                        *)
(***************************************************************************)
\* Advertisements in which a company identifier may occur more than once.
RepeatedSectionLists ==
    UNION {[1..n -> [companyId : CompanyIds, data : Payloads]] : n \in 1..MaxRepeats}

\* receivedData.manufacturerDataMap after the first loop: try_emplace keeps
\* the first section of each company identifier and drops the later ones.
ManufacturerDataMap(sections) ==
    [c \in {sections[i].companyId : i \in 1..Len(sections)} |->
        LET first == CHOOSE i \in 1..Len(sections) :
                        /\ sections[i].companyId = c
                        /\ \A j \in 1..(i - 1) : sections[j].companyId # c
        IN  sections[first].data]

\* The BLEDevice the second loop fills in, laid out as a BleDevice.
BLEDevice(address, rssi, manufacturer_data, timestamp) ==
    [address |-> address, rssi |-> rssi, manufacturerData |-> manufacturer_data,
     timestamp |-> timestamp, airpodsData |-> parse_airpods_data(manufacturer_data)]

\* _devices after OnReceived: the second loop goes through the map and
\* pushes a device for the entry whose companyId == 76.
OnReceived(v5devices, args) ==
    LET manufacturerDataMap == ManufacturerDataMap(args.sections)
    IN  IF 76 \in DOMAIN manufacturerDataMap
        THEN Append(v5devices,
                    BLEDevice(args.address, args.rssi, manufacturerDataMap[76],
                              args.timestamp))
        ELSE v5devices

\* The source raises Received, one event at a time, at a WinRtBleScanner and
\* at a v5 AdvertisementWatcher that scan side by side.
ReceivedByBoth(t) ==
    /\ \A u \in Adders : pc[u] = "idle"
    /\ Received(t, RepeatedSectionLists)
    /\ v5Devices' = OnReceived(v5Devices, advert'[t])

(***************************************************************************)
(* BleDevice comparison.                                                   *)
(***************************************************************************)
\* A comparison of every field.
OperatorEqAllFields(lhs, rhs) == lhs = rhs

\* operator==: return lhs.address == rhs.address;
OperatorEq(lhs, rhs) == lhs.address = rhs.address

\* operator!=: return !(lhs == rhs);
OperatorNe(lhs, rhs) == ~OperatorEq(lhs, rhs)

\* Devices that differ in signal strength, in payload (and so in telemetry)
\* and timestamp, in address alone, and in every field.
CompareInputs ==
    {BleDevice("a1b2", -60, <<7, 25, 1, 20, 32, 11, 136, 143>>, 1),
     BleDevice("a1b2", -45, <<7, 25, 1, 20, 32, 11, 136, 143>>, 1),
     BleDevice("a1b2", -60, <<16, 5, 25, 28, 203, 17, 4, 1>>, 2),
     BleDevice("c3d4", -60, <<7, 25, 1, 20, 32, 11, 136, 143>>, 1),
     BleDevice("c3d4", -45, <<16, 5, 25, 28, 203, 17, 4, 1>>, 2)}

\* One more comparison of two of the operands is recorded with its result.
Compare(op, i, j, result) ==
    /\ Cardinality(compared) < MaxCompares
    /\ compared' = compared \cup {[op |-> op, lhs |-> i, rhs |-> j, ret |-> result]}
    /\ UNCHANGED <<parserVars, operands, registryVars, sourceVars, lifecycleVars,
                   threadVars, historyVars>>

\* operands[i] == operands[j]
CallOperatorEq ==
    \E i \in 1..3, j \in 1..3 :
        Compare("==", i, j, OperatorEq(operands[i], operands[j]))

\* operands[i] != operands[j]
CallOperatorNe ==
    \E i \in 1..3, j \in 1..3 :
        Compare("!=", i, j, OperatorNe(operands[i], operands[j]))

(***************************************************************************)
(* The scanner for its lifetime.                                           *)
(***************************************************************************)
InitParserIdle ==
    /\ parserData = <<>>
    /\ parserOp = "none"
    /\ parserRet = NoResult
    /\ parserReads = {}

\* No BleDevice has been compared.
InitCompareIdle ==
    /\ operands = <<>>
    /\ compared = {}

\* The members' initializers, and the threads before any call.
InitRunning ==
    /\ pendingStopped = 0
    /\ faults = 0
    /\ devicesMutex = NoThread
    /\ conditionMutex = NoThread
    /\ stopRequested = FALSE
    /\ destroyRequested = FALSE
    /\ sinceLastStart = 0
    /\ pc = [t \in Threads |-> "idle"]
    /\ frame = [t \in Threads |-> "api"]
    /\ outcome = [t \in Threads |-> "none"]
    /\ ret = [t \in Threads |-> "none"]
    /\ waitLeft = [t \in Threads |-> 0]
    /\ calls = 0
    /\ explicitStopDone = FALSE
    /\ stopEverRequested = FALSE
    /\ exitReason = [t \in Threads |-> "none"]
    /\ sinceLastSuccess = 0
    /\ advert = [t \in Threads |-> NoAdvert]
    /\ device = [t \in Threads |-> NoDevice]
    /\ callback = [t \in Threads |-> NoCallback]
    /\ size = [t \in Threads |-> 0]
    /\ snapshot = [t \in Threads |-> <<>>]
    /\ count = [t \in Threads |-> 0]
    /\ clears = 0
    /\ appendsAtClear = 0
    /\ registeredAtCall = [t \in Threads |-> <<>>]
    /\ invoked = [t \in Threads |-> <<>>]
    /\ contents = [t \in Threads |-> {}]

\* The members after construction: devices_ is empty.
InitMembers ==
    /\ InitRunning
    /\ devices = <<>>
    /\ v5Devices = <<>>
    /\ adverts = 0
    /\ addCalls = 0
    /\ eventsFrom = [a \in Addresses |-> 0]
    /\ appends = 0

\* WinRtBleScanner::WinRtBleScanner(): the watcher is created, not started.
InitScanner ==
    /\ watcherStatus = "Created"
    /\ deviceCallback = NoCallback
    /\ registered = <<>>
    /\ InitMembers
    /\ InitCompareIdle

Init == InitParserIdle /\ InitScanner

\* The parser called on each input, the scanner left as constructed.
InitParser ==
    /\ parserData \in ParserInputs
    /\ parserOp = "none"
    /\ parserRet = NoResult
    /\ parserReads = {}
    /\ InitScanner

NextParser == CallCanParse \/ CallParse \/ CallParseAirpodsData

SpecParser == InitParser /\ [][NextParser]_vars

\* The parser called on every model identifier.
InitModelIds ==
    /\ parserData \in ModelIdInputs
    /\ parserOp = "none"
    /\ parserRet = NoResult
    /\ parserReads = {}
    /\ InitScanner

SpecModelIds == InitModelIds /\ [][NextParser]_vars

\* The application compares BleDevice values it holds, the scanner left as
\* constructed.
InitCompare ==
    /\ InitParserIdle
    /\ operands \in [1..3 -> CompareInputs]
    /\ compared = {}
    /\ watcherStatus = "Created"
    /\ deviceCallback = NoCallback
    /\ registered = <<>>
    /\ InitMembers

NextCompare == CallOperatorEq \/ CallOperatorNe

SpecCompare == InitCompare /\ [][NextCompare]_vars

\* Start() and Stop(), whoever executes them.
StartStep(t) ==
    \/ StartFlag(t) \/ StartTime(t) \/ StartLock(t) \/ StartCall(t) \/ StartReturn(t)

StopStep(t) ==
    \/ StopFlag(t) \/ StopNotify(t) \/ StopLock(t) \/ StopCall(t) \/ StopReturn(t)

HandlerStep(h) ==
    \/ DeliverStopped(h)
    \/ HandlerLock(h) \/ HandlerStatus(h) \/ HandlerDestroyCheck(h)
    \/ HandlerNotify(h)
    \/ HandlerCondLock(h) \/ HandlerWaitBegin(h)
    \/ HandlerReacquire(h) \/ HandlerCondUnlock(h) \/ HandlerStopCheck(h)

DtorStep(t) ==
    \/ CallDestroy(t) \/ DtorCheck(t) \/ DtorSet(t)
    \/ DtorCondLock(t) \/ DtorWaitBegin(t) \/ DtorReacquire(t) \/ DtorReturn(t)

LifecycleCallers == {Owner}
LifecycleThreads == LifecycleCallers \cup Handlers

NextLifecycle ==
    \/ \E t \in LifecycleCallers :
          \/ CallStart(t) \/ CallStop(t) \/ CallIsScanning(t)
          \/ IsScanningLock(t) \/ IsScanningReturn(t)
          \/ DtorStep(t)
    \/ \E t \in LifecycleThreads :
          \/ StartStep(t) \/ StopStep(t)
          \/ TimeoutWake(t) \/ SpuriousWake(t)
    \/ \E h \in Handlers : HandlerStep(h)
    \/ SourceAbort
    \/ Tick

SpecLifecycle == Init /\ [][NextLifecycle]_vars

\* The registry while the scanner scans: the application's threads call
\* GetDevices, GetDeviceCount, ClearDevices and RegisterCallback, the source
\* delivers advertisements on its own threads.
AddDeviceStep(t) ==
    \/ AddDeviceLock(t) \/ AddDeviceSize(t) \/ AddDeviceStore(t)
    \/ AddDeviceUnlock(t) \/ AddDeviceCheck(t) \/ AddDeviceInvoke(t)

GetDevicesStep(t) ==
    \/ CallGetDevices(t) \/ GetDevicesLock(t) \/ GetDevicesSize(t)
    \/ GetDevicesCopy(t) \/ GetDevicesReturn(t)

GetDeviceCountStep(t) ==
    \/ CallGetDeviceCount(t) \/ GetDeviceCountLock(t) \/ GetDeviceCountSize(t)
    \/ GetDeviceCountReturn(t)

ClearDevicesStep(t) ==
    \/ CallClearDevices(t) \/ ClearDevicesLock(t) \/ ClearDevicesClear(t)
    \/ ClearDevicesReturn(t)

RegisterCallbackStep(t) ==
    \/ CallRegisterCallback(t) \/ RegisterCallbackAssign(t)
    \/ RegisterCallbackAssigned(t)

NextRegistry ==
    \/ \E t \in Callers :
          \/ GetDevicesStep(t) \/ GetDeviceCountStep(t) \/ ClearDevicesStep(t)
    \/ \E t \in Adders :
          \/ OnAdvertisementReceived(t) \/ ProcessManufacturerData(t)
          \/ AddDeviceStep(t)

\* The scanner after RegisterCallback and a Start() that succeeded.
InitRegistry ==
    /\ InitParserIdle
    /\ InitCompareIdle
    /\ InitMembers
    /\ watcherStatus = "Started"
    /\ deviceCallback = Callbacks[1]
    /\ registered = <<Callbacks[1]>>

SpecRegistry == InitRegistry /\ [][NextRegistry]_vars

\* The scanner is scanning, a callback is registered and one advertisement
\* of an Apple device has been handled: devices_ holds its device.
InitPopulated ==
    /\ InitParserIdle
    /\ InitCompareIdle
    /\ InitRunning
    /\ watcherStatus = "Started"
    /\ deviceCallback = Callbacks[1]
    /\ registered = <<Callbacks[1]>>
    /\ devices = <<BleDevice("a1b2", RssiOf["a1b2"], <<7, 25, 1, 20, 32, 11, 136, 143>>, 1)>>
    /\ v5Devices = <<>>
    /\ adverts = 1
    /\ addCalls = 1
    /\ eventsFrom = [a \in Addresses |-> IF a = "a1b2" THEN 1 ELSE 0]
    /\ appends = 1

\* The lifecycle of a scanner whose registry holds a device.
SpecPopulated == InitPopulated /\ [][NextLifecycle]_vars

\* The two scanners fed the same advertisements.
NextAdverts ==
    \E t \in Adders :
        \/ ReceivedByBoth(t) \/ ProcessManufacturerData(t)
        \/ AddDeviceStep(t)

SpecAdverts == InitRegistry /\ [][NextAdverts]_vars

\* Callbacks registered while the source delivers advertisements.
NextCallbacks ==
    \/ \E t \in Callers : RegisterCallbackStep(t)
    \/ \E t \in Adders :
          \/ OnAdvertisementReceived(t) \/ ProcessManufacturerData(t)
          \/ AddDeviceStep(t)

\* The scanner after a Start() that succeeded.
InitCallbacks ==
    /\ InitParserIdle
    /\ InitCompareIdle
    /\ InitMembers
    /\ watcherStatus = "Started"
    /\ deviceCallback = NoCallback
    /\ registered = <<>>

SpecCallbacks == InitCallbacks /\ [][NextCallbacks]_vars

\* What a thread does once it is inside a call or a handler: every step but
\* the application's decision to make a call and the source's decision to
\* deliver a notification.
Progress(t) ==
    \/ StartStep(t) \/ StopStep(t)
    \/ IsScanningLock(t) \/ IsScanningReturn(t)
    \/ HandlerLock(t) \/ HandlerStatus(t) \/ HandlerDestroyCheck(t)
    \/ HandlerNotify(t)
    \/ HandlerCondLock(t) \/ HandlerWaitBegin(t)
    \/ HandlerReacquire(t) \/ HandlerCondUnlock(t) \/ HandlerStopCheck(t)
    \/ DtorCheck(t) \/ DtorSet(t)
    \/ DtorCondLock(t) \/ DtorWaitBegin(t) \/ DtorReacquire(t) \/ DtorReturn(t)

\* The steps that take a mutex.
Acquire(t) ==
    \/ StartLock(t) \/ StopLock(t) \/ IsScanningLock(t) \/ HandlerLock(t)
    \/ HandlerCondLock(t) \/ HandlerReacquire(t)
    \/ DtorCondLock(t) \/ DtorReacquire(t)

\* The scheduler runs every thread that can take a step, a thread that asks
\* for a mutex which is released again and again gets it, the clock advances
\* and a timed wait ends once its deadline has passed.  A spurious wakeup, a
\* call by the application and a fault of the source are never owed.
FairLifecycle ==
    /\ SpecLifecycle
    /\ WF_vars(Tick)
    /\ \A t \in LifecycleThreads :
          /\ WF_vars(Progress(t))
          /\ SF_vars(Acquire(t))
          /\ WF_vars(TimeoutWake(t))

(***************************************************************************)
(* Claims about the parser, under SpecParser.                              *)
(***************************************************************************)
InBounds(d, reads) == reads \subseteq 0..(Len(d) - 1)

C2_ParseIffCanParse ==
    parserOp = "Parse" =>
        /\ parserRet.has_value = CanParse(parserData)
        /\ parserRet.has_value = (Len(parserData) >= 8 /\ parserData[1] = 7)
        /\ (~parserRet.has_value) => parserRet = NoResult
        /\ InBounds(parserData, parserReads)

C2_Witness ==
    /\ parserOp = "Parse"
    /\ Len(parserData) \in 1..7
    /\ parserData[1] = 7
    /\ parserRet = NoResult

\* Parse has returned a result for the payload.
Decoded == parserOp = "Parse" /\ parserRet.has_value

Percentages == {10 * n : n \in 0..10}

C13_LevelsArePercentages ==
    Decoded =>
        /\ parserRet.batteryLevels.left \in 0..100
        /\ parserRet.batteryLevels.right \in 0..100
        /\ parserRet.batteryLevels.case_ \in 0..100

UpperHex == {HexDigits[i] : i \in 1..16}
HexValue(c) == CHOOSE n \in 0..15 : HexDigits[n + 1] = c
HexNumber(str) ==
    HexValue(str[3]) * 4096 + HexValue(str[4]) * 256 + HexValue(str[5]) * 16
        + HexValue(str[6])

\* C33: the model identifier string of a decoded result is "0x" followed by
\* exactly four uppercase hexadecimal digits, leading zeros included, and
\* read as a number these digits are the 16-bit model id: no two model ids
\* have the same string.  Under SpecModelIds.
C33_ModelIdString ==
    (parserOp \in {"Parse", "parse_airpods_data"} /\ parserRet.has_value) =>
        LET str == parserRet.modelId
        IN  /\ Len(str) = 6
            /\ str[1] = "0" /\ str[2] = "x"
            /\ \A i \in 3..6 : str[i] \in UpperHex
            /\ HexNumber(str) = parserData[5] * 256 + parserData[4]

\* Model id 0x000A has been decoded and its string is "0x000A".
C33_Witness ==
    /\ parserOp = "Parse"
    /\ parserData[4] = 10 /\ parserData[5] = 0
    /\ parserRet.has_value
    /\ parserRet.modelId = <<"0", "x", "0", "0", "0", "A">>

\* C34: CanParse accepts manufacturer data that begins with the company
\* identifier: it returns true for 4C 00 07 19 01 14 20 0B and false for
\* FF FF 00 00.
C34_CanParsePrefixedForm ==
    parserOp = "CanParse" =>
        /\ parserData = PrefixedInput => parserRet = TRUE
        /\ parserData = ForeignInput => parserRet = FALSE

\* The payloads of at least MIN_DATA_LENGTH bytes that agree with d on the
\* bytes 0 and 3 to 7: other bytes 1 and 2, and more bytes behind byte 7.
Disguised(d) ==
    {[i \in 1..n |-> CASE i = 2 -> b1
                     [] i = 3 -> b2
                     [] i > MIN_DATA_LENGTH -> b8
                     [] OTHER -> d[i]] :
        b1 \in {0, 25, 255}, b2 \in {0, 25, 255}, b8 \in {0, 25, 255},
        n \in MIN_DATA_LENGTH..MaxLen}

\* C36: what Parse returns depends only on the bytes 0 and 3 to 7 of the
\* payload and on whether it has at least 8 bytes: a shorter payload has no
\* result, Parse reads no other byte, two payloads of at least 8 bytes that
\* agree on the bytes 0 and 3 to 7 have the same result, and a second Parse of
\* the same payload returns what the first returned.
C36_DependsOnSixBytes ==
    /\ [](parserOp = "Parse" =>
            /\ Len(parserData) < MIN_DATA_LENGTH => parserRet = NoResult
            /\ parserReads \subseteq {0, 3, 4, 5, 6, 7}
            /\ Len(parserData) >= MIN_DATA_LENGTH =>
                  \A e \in Disguised(parserData) : Parse(e) = parserRet)
    /\ [][(parserOp = "Parse" /\ parserOp' = "Parse") => parserRet' = parserRet]_vars

C36_Witness ==
    /\ parserOp = "Parse"
    /\ parserRet.has_value
    /\ \E e \in Disguised(parserData) :
          /\ e[2] # parserData[2]
          /\ e[3] # parserData[3]
          /\ Len(e) > Len(parserData)
          /\ Parse(e) = parserRet

\* C15: caseCharging is bit 2 of data[5], leftCharging bit 1 and rightCharging
\* bit 0; the flags depend neither on the high nibble nor on bit 3 of the
\* byte; status 0x0b gives left and right charging and the case not.
C15_ChargingBits ==
    Decoded =>
        LET flags == parserRet.chargingState
            low3 == parserData[6] % 8
        IN  /\ flags.caseCharging = (low3 \in {4, 5, 6, 7})
            /\ flags.leftCharging = (low3 \in {2, 3, 6, 7})
            /\ flags.rightCharging = (low3 \in {1, 3, 5, 7})
            /\ parserData[6] = 11 =>
                  flags = [leftCharging |-> TRUE, rightCharging |-> TRUE,
                           caseCharging |-> FALSE]

C15_Witness ==
    /\ Decoded
    /\ parserData[6] = 252
    /\ parserRet.chargingState = [leftCharging |-> FALSE, rightCharging |-> FALSE,
                                  caseCharging |-> TRUE]

\* C16: lidOpen is bit 2 of data[7], leftInEar bit 1 and rightInEar bit 0, and
\* bothInCase is the negation of (leftInEar or rightInEar), for every value
\* of the byte.
C16_LidBits ==
    Decoded =>
        LET state == parserRet.deviceState
            lid == parserData[8]
        IN  /\ state.lidOpen = ((lid \div 4) % 2 = 1)
            /\ state.leftInEar = ((lid \div 2) % 2 = 1)
            /\ state.rightInEar = (lid % 2 = 1)
            /\ state.bothInCase = ~(state.leftInEar \/ state.rightInEar)

C16_Witness ==
    /\ Decoded
    /\ parserData[8] = 250
    /\ parserRet.deviceState = [leftInEar |-> TRUE, rightInEar |-> FALSE,
                                bothInCase |-> FALSE, lidOpen |-> FALSE]

\* C17: the broadcasting side of every decoded payload is "right".
C17_BroadcastingEarRight == Decoded => parserRet.broadcastingEar = "right"

C17_Witness ==
    /\ Decoded
    /\ parserData[8] = 2
    /\ parserRet.broadcastingEar = "right"

\* C22: Parse and the v5 parse_airpods_data return no-result for the same
\* payloads, and otherwise agree on model name, model-id string, the three
\* battery levels, the three charging flags, the two in-ear flags,
\* bothInCase, lidOpen and the broadcasting ear.
C22_ParseMatchesV5 ==
    parserOp = "parse_airpods_data" =>
        LET modular == Parse(parserData)
        IN  /\ parserRet.has_value = modular.has_value
            /\ parserRet.has_value =>
                  /\ parserRet.model = modular.model
                  /\ parserRet.modelId = modular.modelId
                  /\ parserRet.batteryLevels = modular.batteryLevels
                  /\ parserRet.chargingState = modular.chargingState
                  /\ parserRet.deviceState = modular.deviceState
                  /\ parserRet.broadcastingEar = modular.broadcastingEar

\* The two agree on a payload whose model identifier has a letter among its
\* hexadecimal digits.
C22_Witness ==
    /\ parserOp = "parse_airpods_data"
    /\ parserRet.has_value
    /\ parserRet = Parse(parserData)
    /\ parserRet.modelId = <<"0", "x", "2", "0", "0", "E">>

\* C23: every model identifier the README lists as supported (0x200A, 0x200B,
\* 0x200E, 0x200F, 0x2013, 0x2014, 0x2017, 0x2019, 0x201B) is decoded to a
\* model name of its own, not to "Unknown AirPods".  Under SpecModelIds.
C23_SupportedModelsNamed ==
    (Decoded /\ parserData[5] = 32
             /\ parserData[4] \in {10, 11, 14, 15, 19, 20, 23, 25, 27}) =>
        parserRet.model # "Unknown AirPods"

(***************************************************************************)
(* Claims about BleDevice comparison, under SpecCompare.                   *)
(***************************************************************************)
\* The comparisons made with operator== and with operator!=.
Equalities == {e \in compared : e.op = "=="}
Inequalities == {e \in compared : e.op = "!="}

\* C21: operator== returns true exactly when the two addresses are equal,
\* whatever the signal strength, timestamp, payload and telemetry; operator!=
\* returns the negation; and the results of operator== are reflexive,
\* symmetric and transitive.
C21_EqualIffSameAddress ==
    /\ \A e \in Equalities :
          /\ e.ret = (operands[e.lhs].address = operands[e.rhs].address)
          /\ e.lhs = e.rhs => e.ret
    /\ \A n \in Inequalities :
          /\ n.ret = (operands[n.lhs].address # operands[n.rhs].address)
          /\ \A e \in Equalities :
                (e.lhs = n.lhs /\ e.rhs = n.rhs) => n.ret = ~e.ret
    /\ \A e \in Equalities, f \in Equalities :
          (e.lhs = f.rhs /\ e.rhs = f.lhs) => e.ret = f.ret
    /\ \A e \in Equalities, f \in Equalities, g \in Equalities :
          (e.rhs = f.lhs /\ g.lhs = e.lhs /\ g.rhs = f.rhs /\ e.ret /\ f.ret) => g.ret

\* Three devices of one address, no two alike, have been found equal pair
\* by pair.
C21_Witness ==
    /\ operands # <<>>
    /\ operands[1] # operands[2] /\ operands[2] # operands[3] /\ operands[1] # operands[3]
    /\ \A pair \in {<<1, 2>>, <<2, 3>>, <<1, 3>>} :
          [op |-> "==", lhs |-> pair[1], rhs |-> pair[2], ret |-> TRUE] \in compared

(***************************************************************************)
(* Claims about the watcher lifecycle, under SpecLifecycle.                *)
(***************************************************************************)
\* A thread's Start() reaches the source: bleWatcher_.Start() is called.
IssuesStart(t) == pc[t] = "start_call" /\ pc'[t] = "start_unlock"

\* A thread's Stop() reaches the source: bleWatcher_.Stop() is called.
IssuesStop(t) == pc[t] = "stop_call" /\ pc'[t] = "stop_unlock"

\* C3: once an explicit Stop() has returned, and as long as the application
\* does not call Start() again, no stopped-notification handler calls Start()
\* on the source, wherever the handler was when Stop() ran.
C3_NoStartAfterStop ==
    [][explicitStopDone => \A h \in Handlers : ~IssuesStart(h)]_vars

\* C4: while no Stop() and no teardown has been requested, a restart loop
\* ends in no other way than by a Start() that returned true, and it ends
\* right after that Start().
C4_LoopEndsOnSuccessOnly ==
    /\ [](~stopEverRequested =>
             \A h \in Handlers : exitReason[h] \in {"none", "started"})
    /\ [][\A h \in Handlers :
             (frame[h] = "loop" /\ pc[h] = "start_unlock" /\ pc'[h] # pc[h]) =>
                 IF ret[h] = "true" THEN pc'[h] = "idle" /\ exitReason'[h] = "started"
                 ELSE ~stopEverRequested => pc'[h] = "h_cond_lock"]_vars

\* C5: Start() returns true exactly when the subscription succeeds, and the
\* scanner is then scanning; when the subscription fails Start() returns
\* false and the scanner is not scanning.  Start() never returns without
\* having called the source, also when the scanner is scanning already.
C5_StartResult ==
    [][\A t \in Threads :
          /\ IssuesStart(t) =>
                /\ (outcome'[t] = "ok") <=> (ret'[t] = "true")
                /\ (outcome'[t] = "ok") => Scanning'
                /\ (outcome'[t] # "ok") => (ret'[t] = "false" /\ ~Scanning')
          /\ pc[t] \in {"start_flag", "start_time", "start_lock"} =>
                pc'[t] \in {"start_flag", "start_time", "start_lock", "start_call"}]_vars

\* C6: Stop() sets the explicit-stop flag before it calls the source; it
\* returns true when the unsubscription succeeds, and the scanner is then
\* not scanning, and false when the unsubscription fails; nothing but a
\* Start() clears the flag.
C6_StopResult ==
    [][/\ \A t \in Threads :
             /\ (pc[t] = "stop_flag" /\ pc'[t] # pc[t]) =>
                   (stopRequested' /\ pc'[t] # "stop_unlock")
             /\ IssuesStop(t) =>
                   /\ (outcome'[t] = "ok") <=> (ret'[t] = "true")
                   /\ (outcome'[t] = "ok") => ~Scanning'
                   /\ (outcome'[t] # "ok") => ret'[t] = "false"
       /\ (stopRequested /\ ~stopRequested') =>
             \E t \in Threads : pc[t] = "start_flag" /\ pc'[t] = "start_time"]_vars

\* C20: no fault raised by the source leaves Start() or Stop(): whatever the
\* kind of fault the subscribe or unsubscribe operation raised, the call's
\* result is the return value false.
C20_EveryFaultReturnsFalse ==
    \A t \in Threads :
        outcome[t] \in Outcomes \ {"ok"} => ret[t] = "false"

(***************************************************************************)
(* Claims about the restart loop, under SpecLifecycle.                     *)
(***************************************************************************)
\* A handler's wait_until begins: its deadline is fixed.
BeginsWait(h) == pc[h] = "h_wait_begin" /\ pc'[h] = "h_wait"

\* A thread's Start() executes lastStartTime_ = now.
StampsStart(t) == pc[t] = "start_time" /\ pc'[t] = "start_lock"

EndsWait(h) == pc[h] = "h_wait" /\ pc'[h] = "h_reacquire"

\* A Stop() executes stopCondition_.notify_all().
NotifiesStop(t) == pc[t] = "stop_notify" /\ pc'[t] = "stop_lock"

\* C25: while no Stop() and no teardown has been requested the restart loop
\* does not give up: after a Start() that failed it goes round again,
\* however many attempts have failed, and, but for a Stop() notification,
\* the wait before the next attempt lasts until its deadline, which is one
\* RETRY_INTERVAL after the last attempt and never more.
C25_RetriesForeverOneIntervalApart ==
    /\ [][\A h \in Handlers :
             (/\ ~stopEverRequested
              /\ frame[h] = "loop" /\ pc[h] = "start_unlock" /\ pc'[h] # pc[h]
              /\ outcome[h] # "ok") => pc'[h] = "h_cond_lock"]_vars
    /\ [][\A h \in Handlers :
             (~stopEverRequested /\ EndsWait(h)) =>
                 waitLeft[h] = 0 \/ \E t \in Threads : NotifiesStop(t)]_vars
    /\ [][\A h \in Handlers :
             BeginsWait(h) => waitLeft'[h] <= RETRY_INTERVAL]_vars

\* A handler is in the do-body of its restart loop or at the loop condition.
InRetryWait(h) ==
    pc[h] \in {"h_cond_lock", "h_wait_begin", "h_wait", "h_reacquire",
              "h_cond_unlock", "h_stop_check"}

\* A handler is in its restart loop: in the do-body, at the loop condition,
\* or in the Start() the loop calls.
InLoopStart(h) ==
    /\ frame[h] = "loop"
    /\ pc[h] \in {"start_flag", "start_time", "start_lock", "start_call",
                  "start_unlock"}

LoopActive(h) == InRetryWait(h) \/ InLoopStart(h)

\* C27: once the destructor has set destroyRequested_, no stopped-notification
\* handler calls Start() on the source: neither a handler entered after the
\* request nor a restart loop that was active when the request was made.
C27_NoStartAfterTeardown ==
    [][destroyRequested => \A h \in Handlers : ~IssuesStart(h)]_vars

\* A handler executes destroyCondition_.notify_all().
NotifiesDestroy(h) == pc[h] = "h_notify" /\ pc'[h] = "idle"

\* C28: a restart loop that is active when teardown is requested raises the
\* teardown confirmation when it observes the stop request and exits, so
\* that the destructor's wait is ended by that signal, not by its timeout.
C28_LoopConfirmsTeardown ==
    /\ [][\A h \in Handlers :
             (/\ destroyRequested /\ stopRequested
              /\ pc[h] = "h_stop_check" /\ pc'[h] # pc[h]) => pc'[h] = "h_notify"]_vars
    /\ [][(/\ pc[Owner] = "dtor_wait" /\ pc'[Owner] = "dtor_reacquire"
           /\ \E h \in Handlers : LoopActive(h)) =>
              \E h \in Handlers : NotifiesDestroy(h)]_vars

\* C29: a stopped-notification handler does not hold devicesMutex_ anywhere
\* in its retry wait, holds neither mutex while it is blocked in the wait,
\* and holds neither mutex when it calls Start() from the loop (inside, Start()
\* takes devicesMutex_ itself): the handler keeps no other thread's Start(),
\* Stop(), IsScanning(), GetDevices() or AddDevice() out for a retry wait.
C29_NoLockAcrossRetryWait ==
    \A h \in Handlers :
        /\ InRetryWait(h) => devicesMutex # h
        /\ pc[h] = "h_wait" => conditionMutex # h
        /\ (InLoopStart(h) /\ pc[h] \in {"start_flag", "start_time", "start_lock"}) =>
               devicesMutex # h
        /\ InLoopStart(h) => conditionMutex # h

\* A handler is blocked in its retry wait with time left while the
\* application's thread is inside Start() or Stop() with devicesMutex_.
C29_Witness ==
    \E h \in Handlers :
        /\ pc[h] = "h_wait"
        /\ waitLeft[h] > 0
        /\ devicesMutex = Owner
        /\ pc[Owner] \in {"start_call", "stop_call"}

\* Thread t is about to take devicesMutex_, or conditionMutex_.
AwaitsDevicesMutex(t) ==
    pc[t] \in {"start_lock", "stop_lock", "scanning_lock", "h_lock", "add_lock",
               "get_lock", "count_lock", "clear_lock"}

AwaitsConditionMutex(t) ==
    pc[t] \in {"h_cond_lock", "h_reacquire", "dtor_cond_lock", "dtor_reacquire"}

\* C39: no thread holds devicesMutex_ and conditionMutex_ at the same time,
\* and no thread holds one of them when it goes to take the other, so the two
\* mutexes are never taken in opposite orders and no lock-order deadlock
\* between them is possible.
C39_NeverBothMutexes ==
    \A t \in Threads :
        /\ ~(devicesMutex = t /\ conditionMutex = t)
        /\ AwaitsDevicesMutex(t) => conditionMutex # t
        /\ AwaitsConditionMutex(t) => devicesMutex # t

\* The two mutexes are held at the same moment, by two threads: the handler
\* has conditionMutex_ around its wait while the application's thread is
\* inside Start() or Stop() with devicesMutex_.
C39_Witness ==
    \E h \in Handlers :
        /\ conditionMutex = h
        /\ devicesMutex = Owner
        /\ pc[Owner] \in {"start_call", "stop_call"}

\* Thread t takes a step of Start(), Stop(), IsScanning() or of the stopped
\* handler, the call and the return included.
LifecycleLabels ==
    {"start_flag", "start_time", "start_lock", "start_call", "start_unlock",
     "stop_flag", "stop_notify", "stop_lock", "stop_call", "stop_unlock",
     "scanning_lock", "scanning_read",
     "h_lock", "h_status", "h_destroy_check", "h_notify", "h_cond_lock",
     "h_wait_begin", "h_wait", "h_reacquire", "h_cond_unlock", "h_stop_check"}

LifecycleStep(t) ==
    /\ pc'[t] # pc[t]
    /\ pc[t] \in LifecycleLabels \/ pc'[t] \in LifecycleLabels

\* C40: no step of Start(), Stop(), IsScanning() or of the stopped handler,
\* its restart attempts included, changes devices_ or the registered
\* callback.
C40_LifecycleLeavesRegistry ==
    [][(\E t \in Threads : LifecycleStep(t)) =>
          UNCHANGED <<devices, deviceCallback, registered>>]_vars

\* The handler is inside a restart attempt, after a Stop() and a Start() of
\* the application, and devices_ still holds its device and the callback is
\* still registered.
C40_Witness ==
    /\ \E h \in Handlers : InLoopStart(h) /\ pc[h] = "start_call"
    /\ explicitStopDone
    /\ Len(devices) = 1
    /\ deviceCallback = Callbacks[1]

(***************************************************************************)
(* Claims about teardown, under FairLifecycle.                             *)
(***************************************************************************)
DtorEnded == pc[Owner] \in {"destroyed", "terminated"}

\* An application Stop() has returned, or teardown has been requested, and
\* the application has not called Start() since.
StopStands == explicitStopDone \/ destroyRequested

\* C26: a restart loop that is active when an explicit Stop() has run or
\* teardown has been requested comes to an end, as long as the application
\* does not call Start() again: it does not go on retrying for ever,
\* wherever in the loop the handler was when the request arrived.
C26_LoopEndsAfterStop ==
    \A h \in Handlers :
        (LoopActive(h) /\ StopStands) ~> (~LoopActive(h) \/ ~StopStands \/ ~Alive)

\* C7: the destructor always comes to an end: its wait for the confirmation
\* lasts at most DESTROY_TIMEOUT, whether a handler signals the confirmation
\* during the wait, before the wait begins, or never; the destructor then
\* returns (a fault that escapes its Stop() ends the process instead).
C7_TeardownTerminates ==
    /\ [](pc[Owner] = "dtor_wait" => waitLeft[Owner] <= DESTROY_TIMEOUT)
    /\ (InDestructor ~> DtorEnded)

\* The destructor has returned and no handler ever signalled the confirmation.
C7_Witness ==
    /\ pc[Owner] = "destroyed"
    /\ destroyRequested
    /\ \A h \in Handlers : exitReason[h] # "teardown"

(***************************************************************************)
(* Claims about the device registry, under SpecRegistry.                   *)
(***************************************************************************)
InAddDevice(t) ==
    pc[t] \in {"add_lock", "add_size", "add_store", "add_unlock", "add_check",
               "add_invoke"}

\* C8: as long as no ClearDevices has run, devices_ holds as many devices as
\* appends have completed, GetDeviceCount() returns that number, and once
\* every AddDevice call made has returned it returns the number of calls.
C8_CountIsAppends ==
    clears = 0 =>
        /\ Len(devices) = appends
        /\ \A t \in Callers : pc[t] = "count_unlock" =>
              /\ count[t] = appends
              /\ (\A a \in Adders : ~InAddDevice(a)) => count[t] = addCalls

\* GetDeviceCount() returns 2 after the two source threads have added a
\* device each.
C8_Witness ==
    /\ clears = 0
    /\ \A a \in Adders : ~InAddDevice(a) /\ pc[a] = "idle"
    /\ addCalls = 2
    /\ \E t \in Callers : pc[t] = "count_unlock" /\ count[t] = 2

\* C9: the vector GetDevices() has built when it returns is a value devices_
\* had at some instant of the call, so holds nothing but devices whose append
\* had completed; what the caller holds afterwards no later AddDevice or
\* ClearDevices changes.
C9_SnapshotIsContent ==
    /\ [](\A t \in Callers :
            (pc[t] = "get_copy" /\ Len(snapshot[t]) = size[t]) =>
                snapshot[t] \in contents[t])
    /\ [][\A t \in Callers :
            (pc[t] = "idle" /\ pc'[t] = "idle") => snapshot'[t] = snapshot[t]]_vars

\* A caller holds the device it was returned although the registry has been
\* cleared since.
C9_Witness ==
    /\ clears > 0
    /\ devices = <<>>
    /\ \E t \in Callers : pc[t] = "idle" /\ Len(snapshot[t]) > 0

\* C11: a broadcast whose payload CanParse rejects is dropped: no AddDevice
\* call is made for it, so it adds no entry to the registry and triggers no
\* callback.
C11_UndecodableDropped ==
    /\ \A i \in 1..Len(devices) : CanParse(devices[i].manufacturerData)
    /\ \A t \in Adders : InAddDevice(t) => CanParse(device[t].manufacturerData)

\* Thread t passes one section of its advertisement to ProcessManufacturerData.
PassesSection(t) ==
    /\ pc[t] = "adv_loop"
    /\ advert[t].sections # <<>>
    /\ advert'[t] # advert[t]

\* C18: only the sections whose company identifier is 76 reach the parser and
\* the registry: a section of any other company starts no AddDevice call,
\* leaves the registry as it was and invokes no callback.
C18_OnlyAppleSections ==
    [][\A t \in Adders :
          PassesSection(t) =>
              LET companyId == Head(advert[t].sections).companyId
              IN  /\ companyId # 76 =>
                        /\ pc'[t] = "adv_loop"
                        /\ invoked'[t] = <<>>
                        /\ UNCHANGED <<devices, device, addCalls, eventsFrom>>
                  /\ pc'[t] = "add_lock" => companyId = 76]_vars

C18_Witness ==
    \E t \in Adders :
        /\ pc[t] = "adv_loop"
        /\ advert[t].address \in Addresses
        /\ advert[t].sections = <<>>
        /\ adverts = 1
        /\ addCalls = 0
        /\ devices = <<>>

\* The registry's entries with address a, and the AddDevice calls for a
\* device of address a that have not stored it yet.
EntriesFrom(a) == Cardinality({i \in 1..Len(devices) : devices[i].address = a})

PendingFrom(a) ==
    Cardinality({t \in Adders : /\ pc[t] \in {"add_lock", "add_size", "add_store"}
                                /\ device[t].address = a})

MadeFrom(d, a, data) ==
    /\ d.address = a.address
    /\ d.rssi = a.rssi
    /\ d.manufacturerData = data
    /\ d.airpodsData.has_value <=> CanParse(data)
    /\ d.airpodsData.has_value => d.airpodsData = Parse(data)

\* C37: every device in the registry was made from a section of company
\* identifier 76: the device handed to AddDevice carries the address and the
\* signal strength of the advertisement and the payload of that section, with
\* telemetry exactly when CanParse accepts the payload and then the result of
\* Parse; the store puts that device, as it is, behind the entries present;
\* so every entry has the signal strength of its address and the telemetry of
\* its payload.
C37_EntriesAreAppleSections ==
    /\ [](\A i \in 1..Len(devices) :
            /\ devices[i].address \in Addresses
            /\ devices[i].manufacturerData \in Payloads
            /\ MadeFrom(devices[i],
                        [address |-> devices[i].address,
                         rssi |-> RssiOf[devices[i].address]],
                        devices[i].manufacturerData))
    /\ [][\A t \in Adders :
             /\ (pc[t] = "adv_loop" /\ pc'[t] = "add_lock") =>
                    /\ Head(advert[t].sections).companyId = 76
                    /\ MadeFrom(device'[t], advert[t], Head(advert[t].sections).data)
             /\ (pc[t] = "add_store" /\ pc'[t] # pc[t]) =>
                    devices' = Append(devices, device[t])
             /\ (InAddDevice(t) /\ pc'[t] # "idle" /\ pc'[t] # "adv_loop") =>
                    device'[t] = device[t]]_vars

C37_Witness ==
    /\ Len(devices) = 2
    /\ devices[1].airpodsData.has_value
    /\ ~devices[2].airpodsData.has_value
    /\ ~CanParse(devices[2].manufacturerData)
    /\ devices[1].address # devices[2].address

\* The sequence a is the beginning of the sequence b.
IsPrefix(a, b) == Len(a) <= Len(b) /\ \A i \in 1..Len(a) : a[i] = b[i]

\* Thread t holds the vector a GetDevices() call of its own has built.
HoldsSnapshot(t) ==
    \/ pc[t] = "idle"
    \/ pc[t] = "get_copy" /\ Len(snapshot[t]) = size[t]

\* C38: devices_ only grows at its end until ClearDevices empties it: a step
\* that changes devices_ is the push_back of the thread that holds
\* devicesMutex_, which puts its device behind the entries present, or the
\* clear() of ClearDevices; so, while ClearDevices has not been called, every
\* vector GetDevices() has returned is a beginning of devices_, and a vector
\* returned earlier is a beginning of every vector returned later.
C38_AppendOnly ==
    /\ [][devices' # devices =>
             \E t \in Threads :
                 /\ devicesMutex = t
                 /\ \/ pc[t] = "add_store" /\ devices' = Append(devices, device[t])
                    \/ pc[t] = "clear_clear" /\ devices' = <<>>]_vars
    /\ [](clears = 0 =>
             \A t \in Callers : HoldsSnapshot(t) => IsPrefix(snapshot[t], devices))
    /\ [][\A t \in Callers :
             (clears = 0 /\ pc[t] = "get_copy" /\ pc'[t] = "idle") =>
                 \A u \in Callers \ {t} :
                     pc[u] = "idle" => IsPrefix(snapshot[u], snapshot'[t])]_vars

C38_Witness ==
    /\ clears = 0
    /\ Len(devices) = 2
    /\ \E t \in Callers, u \in Callers :
          /\ pc[t] = "idle" /\ pc[u] = "idle"
          /\ Len(snapshot[t]) = 1
          /\ snapshot[u] = devices

\* The appends completed since devices_ was last emptied.
AppendsSinceClear == appends - appendsAtClear

\* A thread is inside ClearDevices.
InClearDevices(t) == pc[t] \in {"clear_lock", "clear_clear", "clear_unlock"}

\* C31: ClearDevices empties devices_ holding devicesMutex_: from then on
\* devices_ holds the devices appended since, so with no AddDevice in between
\* GetDeviceCount() returns 0 and GetDevices() an empty vector; no step of
\* ClearDevices changes the callback, stopRequested_, destroyRequested_,
\* lastStartTime_ or the watcher's status.
C31_ClearDevicesEmpties ==
    /\ [](clears > 0 =>
             /\ Len(devices) = AppendsSinceClear
             /\ \A t \in Callers :
                   /\ pc[t] = "count_unlock" => count[t] = AppendsSinceClear
                   /\ (pc[t] = "get_copy" /\ Len(snapshot[t]) = size[t]) =>
                         Len(snapshot[t]) = AppendsSinceClear)
    /\ [][\A t \in Callers :
             /\ (pc[t] = "clear_clear" /\ pc'[t] # pc[t]) =>
                   (devicesMutex = t /\ devices' = <<>>)
             /\ (InClearDevices(t) /\ pc'[t] # pc[t]) =>
                   UNCHANGED <<deviceCallback, registered, stopRequested,
                               destroyRequested, sinceLastStart, watcherStatus>>]_vars

\* Devices had been appended, ClearDevices has run, and a GetDeviceCount()
\* made afterwards returned 0.
C31_Witness ==
    /\ clears = 1
    /\ appendsAtClear > 0
    /\ AppendsSinceClear = 0
    /\ \E t \in Callers : pc[t] = "count_unlock" /\ count[t] = 0

\* A thread's AddDevice executes devices_.push_back(device).
Appends(t) == pc[t] = "add_store" /\ pc'[t] = "add_unlock"

\* A thread's AddDevice executes deviceCallback_(device).
Invokes(t) == pc[t] = "add_invoke" /\ pc'[t] = "adv_loop"

\* C30: AddDevice appends its device holding devicesMutex_, has released
\* the mutex when it tests and invokes the callback, and invokes the
\* registered callback once, with the device it appended; so a callback
\* that takes devicesMutex_ (GetDevices, GetDeviceCount, ClearDevices) is not
\* locked out by its own AddDevice, and as long as no ClearDevices has run
\* the device is in devices_ when its callback runs.
C30_CallbackAfterUnlock ==
    /\ [](\A t \in Adders :
             /\ pc[t] \in {"add_check", "add_invoke"} => devicesMutex # t
             /\ pc[t] = "add_invoke" =>
                   /\ invoked[t] = <<>>
                   /\ clears = 0 => \E i \in 1..Len(devices) : devices[i] = device[t])
    /\ [][\A t \in Adders :
             /\ Appends(t) =>
                   (devicesMutex = t /\ devices' = Append(devices, device[t]))
             /\ (InAddDevice(t) /\ InAddDevice(t)') => device'[t] = device[t]
             /\ (pc[t] = "add_check" /\ pc'[t] # pc[t]) => pc'[t] = "add_invoke"
             /\ Invokes(t) => invoked'[t] = <<deviceCallback>>]_vars

\* A thread of the source is about to invoke the callback with the device it
\* appended while an application thread holds devicesMutex_.
C30_Witness ==
    \E t \in Adders :
        /\ pc[t] = "add_invoke"
        /\ devicesMutex \in Callers
        /\ clears = 0
        /\ devices # <<>>
        /\ devices[Len(devices)] = device[t]

(***************************************************************************)
(* Claims about the two scanners, under SpecAdverts.                       *)
(***************************************************************************)
\* C35: whenever the advertisements delivered so far have been handled, the
\* WinRtBleScanner has appended as many devices as the v5 AdvertisementWatcher,
\* with the same address, signal strength, payload and decoded telemetry,
\* however many sections an advertisement has and whatever their company
\* identifiers.
C35_SameAppendsAsV5 ==
    (\A t \in Adders : pc[t] = "idle") =>
        /\ Len(devices) = Len(v5Devices)
        /\ \A i \in 1..Len(devices) :
              /\ devices[i].address = v5Devices[i].address
              /\ devices[i].rssi = v5Devices[i].rssi
              /\ devices[i].manufacturerData = v5Devices[i].manufacturerData
              /\ devices[i].airpodsData = v5Devices[i].airpodsData

(***************************************************************************)
(* Claims about the callbacks, under SpecCallbacks.                        *)
(***************************************************************************)
\* A thread reads or writes devices_.
AccessesDevices(t) ==
    pc[t] \in {"add_size", "add_store", "get_size", "get_copy", "count_size",
              "clear_clear"}

\* A thread's AddDevice reads deviceCallback_: the test or the call.
ReadsCallback(t) == pc[t] \in {"add_check", "add_invoke"} /\ pc'[t] # pc[t]

\* C32: no access to the scanner's shared state is a data race: devices_ is
\* read and written with devicesMutex_ held, and deviceCallback_ is never read
\* by AddDevice while a RegisterCallback on another thread assigns it, nor
\* assigned by two threads at once (the flags and lastStartTime_ are atomics).
C32_NoDataRace ==
    /\ [](\A t \in Threads : AccessesDevices(t) => devicesMutex = t)
    /\ [](Cardinality(Assigning) <= 1)
    /\ [][\A t \in Adders : ReadsCallback(t) => Assigning = {}]_vars

AddDeviceReturns(t) ==
    pc[t] \in {"add_check", "add_invoke"} /\ pc'[t] = "adv_loop"

\* No RegisterCallback has run or begun since a thread's AddDevice began.
NoneRegisteredSince(t) == Registering = {} /\ registered = registeredAtCall[t]

\* C10: an AddDevice made after callbacks f1 .. fk have been registered, and
\* with no registration under way, has invoked exactly f1 .. fk, once each and
\* in the order of their registration, when it returns.
C10_EveryCallbackInvoked ==
    [][\A t \in Adders :
          (AddDeviceReturns(t) /\ NoneRegisteredSince(t)) =>
              invoked'[t] = registered]_vars

====
